---- MODULE Spec2Model ----
(***************************************************************************)
(* Verification model of the legal-document transfer system:               *)
(*   - ProtocolHandler (src/src/components/protocol_handler.py) with the   *)
(*     MessageValidator (src/src/utils/validation.py),                     *)
(*   - Receiver (src/src/components/receiver.py) fed by an untrusted relay,*)
(*   - IntermediateServer (src/src/components/server_intermediate.py).     *)
(* Each subsystem has its own specification (SpecPH and SpecFlow for the   *)
(* ProtocolHandler, SpecRecv, SpecRelay); the variables of the other       *)
(* subsystems stay at their initial value.                                 *)
(***************************************************************************)
EXTENDS Integers, Sequences, FiniteSets, TLC

VARIABLES
    \* ---- ProtocolHandler (protocol_handler.py:79-86) ----
    current_state,            \* self.current_state
    previous_state,           \* self.previous_state
    state_history,            \* self.state_history (timestamps not represented)
    active_transactions,      \* self.active_transactions : id -> record
    completed_transactions,   \* self.completed_transactions : id -> record
    ph_ret,                   \* value returned by the last ProtocolHandler call
    ph_calls,                 \* number of ProtocolHandler calls made so far
    flow_pc,                  \* messages of the protocol flow processed so far
    \* ---- Receiver (receiver.py:62-82) ----
    r_session_key,            \* self.session_key
    r_files,                  \* content of self.output_dir : filename -> bytes
    r_messages_received,      \* self.stats['messages_received']
    r_errors,                 \* self.stats['errors']
    r_reply,                  \* value returned by the last _handle_message
    r_steps,                  \* calls made by the last _handle_message
    r_msg,                    \* message given to the last _handle_message
    r_handled,                \* one record per _handle_message call, in order
    \* ---- Sender (sender.py:55-58) ----
    s_pc,                     \* position in send_file_complete_flow
    s_receiver_public_key,    \* self.receiver_public_key
    s_session_key,            \* self.session_key
    s_sent,                   \* messages the Sender has put on the wire
    \* ---- IntermediateServer (server_intermediate.py:69-87) ----
    sv_message_queue,         \* self.message_queue
    sv_messages_received,     \* self.stats['messages_received']
    sv_messages_forwarded,    \* self.stats['messages_forwarded']
    sv_messages_dropped,      \* self.stats['messages_dropped']
    sv_errors,                \* self.stats['errors']
    sv_item,                  \* queue_item held by _forwarding_worker
    sv_sent,                  \* frames written back for the last inbound message
    up_replies,               \* frames the upstream wrote for that message
    fw_ok,                    \* _forward_message calls that got a response
    fw,                       \* per queue entry: attempts, failures, drops
    sv_in,                    \* the message _handle_message handled last
    up_sent,                  \* what it gave to _forward_message
    \* ---- ServerSocketHandler.stop_server (socket_handler.py:360-374) ----
    st_pc,                    \* where stop_server is
    st_used,                  \* size of client_handlers when its loop began
    st_visited,               \* entries its loop has visited
    st_closed,                \* client sockets it has closed
    listening,                \* the listening socket is open
    \* ---- a signature made and verified (crypto_handler.py:253-298) ----
    g_pc,                     \* signature exchange: "start", "signed", "verified"
    g_m1,                     \* the metadata dict that is signed
    g_priv,                   \* owner of the private key that signs
    g_sig,                    \* sign_metadata's return value
    g_m2,                     \* the metadata dict that is verified
    g_pub,                    \* owner of the public key that verifies
    g_ok,                     \* verify_signature's return value
    \* ---- connections of an IntermediateServer (socket_handler.py:261-314) ----
    cn_pc,                    \* where the thread of each connection is
    cn_inbox,                 \* frames written by the client, not yet read
    cn_nsent,                 \* number of messages each client has written
    cn_msg,                   \* message the thread is handling
    cn_load,                  \* stats['messages_received'] as the thread read it
    cn_out,                   \* frames written back on each connection
    cn_hist,                  \* outcome of each message handled on a connection
    client_handlers,          \* keys of ServerSocketHandler.client_handlers
    connections,              \* IntermediateServer.connections
    connection_lock,          \* holder of IntermediateServer.connection_lock
    mr_writers,               \* threads that wrote stats['messages_received']
    ch_writers,               \* threads that wrote client_handlers
    cn_up,                    \* per connection: request, what was forwarded, reply
    cn_idle,                  \* connections idle for longer than the timeout
    sv_connections_closed,    \* self.stats['connections_closed']
    table_writers,            \* <<thread, lock holder>> of each write of connections
    \* ---- one run of Sender.send_file_complete_flow through both relays ----
    e_pc,                     \* where the Sender is in the flow
    e_at,                     \* where each message, or its reply, is
    e_msg,                    \* the messages as sent
    e_reply,                  \* the Receiver's reply to each message
    e_path,                   \* components each reply has left or reached
    e_s1,                     \* server1's handling of each message
    e_s2,                     \* server2's handling of each message
    e_r,                      \* the Receiver's thread for each message
    e_t1,                     \* seconds server1 has waited for each reply
    e_t2,                     \* seconds server2 has waited for each reply
    e_cn,                     \* Sender connection each message was written on
    e_in,                     \* frames unread on the Sender's connection
    e_conn,                   \* the Sender's current connection
    e_threads,                \* Sender connections with a live thread at server1
    e_wait,                   \* seconds the Sender has waited in its receive
    e_ret,                    \* value returned by send_file_complete_flow
    e_sv2_received,           \* stats['messages_received'] of server2
    \* ---- one connection of a client to the Receiver's listener, in bytes ----
    f_wire,                   \* bytes the client wrote that the listener has not read
    f_closed,                 \* the client has closed its socket
    f_sent,                   \* what each write of the client was and returned
    f_open,                   \* the listener's thread runs: client_handlers has the entry
    f_got,                    \* what each receive_message of the listener returned
    f_back,                   \* bytes the listener wrote that the client has not read
    f_cgot,                   \* what each receive_message of the client returned
    \* ---- one call of Sender.send_file_complete_flow, any network ----
    q_pc,                     \* the step the flow is about to call, or "returned"
    q_arg,                    \* the transaction_id argument of the call
    q_tid,                    \* Sender.current_transaction_id
    q_connected,              \* Sender.is_connected
    q_key,                    \* Sender.receiver_public_key
    q_sent,                   \* the messages the Sender has sent, in order
    q_log,                    \* each step called: its result and what it received
    q_ret,                    \* value returned by send_file_complete_flow
    q_recvs,                  \* receive calls of the Sender
    q_session,                \* Sender.session_key
    q_prev                    \* the earlier calls on this Sender: ids and key used

phVars == <<current_state, previous_state, state_history,
            active_transactions, completed_transactions, ph_ret, ph_calls>>

recvOnlyVars == <<r_session_key, r_files, r_messages_received, r_errors,
                  r_reply, r_steps, r_msg, r_handled>>

senderVars == <<s_pc, s_receiver_public_key, s_session_key, s_sent>>

recvVars == <<recvOnlyVars, senderVars>>

sweepVars == <<cn_idle, sv_connections_closed>>

concVars == <<cn_pc, cn_inbox, cn_nsent, cn_msg, cn_load, cn_out, cn_hist,
              client_handlers, connections, connection_lock, mr_writers,
              ch_writers, table_writers, cn_up, sweepVars>>

e2eVars == <<e_pc, e_at, e_msg, e_reply, e_path, e_s1, e_s2, e_r, e_t1, e_t2,
             e_cn, e_in, e_conn, e_threads, e_wait, e_ret, e_sv2_received>>

frameVars == <<f_wire, f_closed, f_sent, f_open, f_got, f_back, f_cgot>>

runVars == <<q_pc, q_arg, q_tid, q_connected, q_key, q_sent, q_log, q_ret,
             q_recvs, q_session, q_prev>>

signVars == <<g_pc, g_m1, g_priv, g_sig, g_m2, g_pub, g_ok>>

stopVars == <<st_pc, st_used, st_visited, st_closed, listening>>

wireVars == <<frameVars, runVars, signVars, stopVars>>

relayVars == <<sv_message_queue, sv_messages_received, sv_messages_forwarded,
               sv_messages_dropped, sv_errors, sv_item, sv_sent, up_replies,
               fw_ok, fw, sv_in, up_sent, concVars, e2eVars, wireVars>>

(***************************************************************************)
(* Bounds of the model                                                     *)
(***************************************************************************)
MaxCalls == 3        \* ProtocolHandler calls explored in one behaviour

MaxDeliver == 3      \* messages handed to the Receiver in one behaviour

MaxInbound == 2      \* messages a relay handles in one behaviour

MaxFrames == 2       \* writes of the client on one connection

MaxReads == 2        \* receive calls of the client on one connection

MaxAttempts == 2     \* calls of send_file_complete_flow on one Sender

MaxQueued == 2       \* entries appended to a relay's forwarding queue

MaxPerConn == 2      \* messages a client writes on one connection

Times == {0, 1}      \* sample values of time.time()

None == "None"       \* Python None / absent key

(***************************************************************************)
(* ProtocolState and MessageType enums (protocol_handler.py:17-38)         *)
(***************************************************************************)
IDLE == "idle"
HANDSHAKE == "handshake"
KEY_EXCHANGE == "key_exchange"
FILE_TRANSFER == "file_transfer"
ACK_WAIT == "ack_wait"
COMPLETED == "completed"
ERROR == "error"

ProtocolState ==
    {IDLE, HANDSHAKE, KEY_EXCHANGE, FILE_TRANSFER, ACK_WAIT, COMPLETED, ERROR}

MessageType ==
    {"HELLO", "READY", "PUBLIC_KEY", "SESSION_KEY", "FILE_DATA",
     "ACK", "NACK", "DISCONNECT", "HEARTBEAT"}

(***************************************************************************)
(* Sample values of the identifier fields, and what the regular            *)
(* expressions of MessageValidator.patterns accept of them.                *)
(***************************************************************************)
TxIds == {"tx_1000_demo"}

\* validate_transaction_id: str, len <= 100, ^tx_\d+_[a-zA-Z0-9_]+$
validate_transaction_id(v) == v \in {"tx_1000_demo", "tx_2000_demo"}

\* validate_sender_id: str, len <= 50, ^[a-zA-Z0-9_]+$
validate_sender_id(v) == v \in {"sender", "receiver", "server1", "server2"}

\* validate_receiver_id: str, len <= 50, ^[a-zA-Z0-9_]+$
validate_receiver_id(v) == v \in {"sender", "receiver", "server1", "server2"}

\* validate_filename: str, len <= 255, ^[a-zA-Z0-9_.-]+$
validate_filename(v) == v \in {"hello.txt", "evil.txt"}

\* A text field that carries encoded bytes is written [enc |-> e, val |-> v]:
\* e is "b64" (matches ^[A-Za-z0-9+/]*={0,2}$), "hex" (matches ^[0-9a-fA-F]+$),
\* "pem" (-----BEGIN PUBLIC KEY----- ... -----END PUBLIC KEY-----) or "raw"
\* (a string matching none of them); v is what the text decodes to.
validate_base64(v) == v.enc = "b64"

validate_hex(v) == v.enc = "hex"

\* A Python dict is a TLA+ function; d.get(k) is Get(d, k).
Has(d, k) == k \in DOMAIN d

Get(d, k) == IF k \in DOMAIN d THEN d[k] ELSE None

(***************************************************************************)
(* MessageValidator (validation.py). Each validator returns                *)
(* <<is_valid, error_message>>.                                            *)
(***************************************************************************)
\* validation.py:44-83. A field that is present but of the wrong Python type
\* is written with the value "#badtype" (type, source, destination) or as a
\* data of [notdict |-> TRUE].
validate_message_structure(message) ==
    IF ~Has(message, "type") THEN <<FALSE, "Thieu field bat buoc: type">>
    ELSE IF ~Has(message, "source") THEN <<FALSE, "Thieu field bat buoc: source">>
    ELSE IF ~Has(message, "destination")
        THEN <<FALSE, "Thieu field bat buoc: destination">>
    ELSE IF ~Has(message, "data") THEN <<FALSE, "Thieu field bat buoc: data">>
    ELSE IF message.type = "#badtype" THEN <<FALSE, "Field 'type' phai la string">>
    ELSE IF message.source = "#badtype"
        THEN <<FALSE, "Field 'source' phai la string">>
    ELSE IF message.destination = "#badtype"
        THEN <<FALSE, "Field 'destination' phai la string">>
    ELSE IF Has(message.data, "notdict")
        THEN <<FALSE, "Field 'data' phai la dictionary">>
    ELSE <<TRUE, "Message structure hop le">>

\* validation.py:85-123
validate_hello_message(message) ==
    LET s == validate_message_structure(message) IN
    IF ~s[1] THEN s
    ELSE IF message.type # "HELLO" THEN <<FALSE, "Message type phai la HELLO">>
    ELSE IF ~Has(message.data, "message")
        THEN <<FALSE, "Thieu field 'message' trong data">>
    ELSE IF message.data.message # "Hello!"
        THEN <<FALSE, "Message phai la 'Hello!'">>
    ELSE IF ~Has(message.data, "sender_id")
        THEN <<FALSE, "Thieu field 'sender_id' trong data">>
    ELSE IF ~validate_sender_id(message.data.sender_id)
        THEN <<FALSE, "sender_id khong hop le">>
    ELSE <<TRUE, "Hello message hop le">>

\* validation.py:125-163
validate_ready_message(message) ==
    LET s == validate_message_structure(message) IN
    IF ~s[1] THEN s
    ELSE IF message.type # "READY" THEN <<FALSE, "Message type phai la READY">>
    ELSE IF ~Has(message.data, "message")
        THEN <<FALSE, "Thieu field 'message' trong data">>
    ELSE IF message.data.message # "Ready!"
        THEN <<FALSE, "Message phai la 'Ready!'">>
    ELSE IF ~Has(message.data, "receiver_id")
        THEN <<FALSE, "Thieu field 'receiver_id' trong data">>
    ELSE IF ~validate_receiver_id(message.data.receiver_id)
        THEN <<FALSE, "receiver_id khong hop le">>
    ELSE <<TRUE, "Ready message hop le">>

\* validation.py:165-204
validate_public_key_message(message) ==
    LET s == validate_message_structure(message) IN
    IF ~s[1] THEN s
    ELSE IF message.type # "PUBLIC_KEY"
        THEN <<FALSE, "Message type phai la PUBLIC_KEY">>
    ELSE IF ~Has(message.data, "public_key")
        THEN <<FALSE, "Thieu field 'public_key' trong data">>
    ELSE IF message.data.public_key.enc # "pem"
        THEN <<FALSE, "public_key phai co format PEM">>
    ELSE <<TRUE, "Public Key message hop le">>

\* validation.py:206-242
validate_session_key_message(message) ==
    LET s == validate_message_structure(message) IN
    IF ~s[1] THEN s
    ELSE IF message.type # "SESSION_KEY"
        THEN <<FALSE, "Message type phai la SESSION_KEY">>
    ELSE IF ~Has(message.data, "encrypted_session_key")
        THEN <<FALSE, "Thieu field 'encrypted_session_key' trong data">>
    ELSE IF ~validate_base64(message.data.encrypted_session_key)
        THEN <<FALSE, "encrypted_session_key phai co format base64">>
    ELSE <<TRUE, "Session Key message hop le">>

\* validation.py:377-417. timestamp and file_size are numbers in every
\* metadata the model builds, except file_size = -1 (rejected as negative).
validate_metadata(metadata) ==
    IF ~Has(metadata, "filename") THEN <<FALSE, "Thieu field 'filename' trong metadata">>
    ELSE IF ~Has(metadata, "timestamp")
        THEN <<FALSE, "Thieu field 'timestamp' trong metadata">>
    ELSE IF ~Has(metadata, "transaction_id")
        THEN <<FALSE, "Thieu field 'transaction_id' trong metadata">>
    ELSE IF ~Has(metadata, "file_size")
        THEN <<FALSE, "Thieu field 'file_size' trong metadata">>
    ELSE IF ~Has(metadata, "sender_id")
        THEN <<FALSE, "Thieu field 'sender_id' trong metadata">>
    ELSE IF ~validate_filename(metadata.filename) THEN <<FALSE, "filename khong hop le">>
    ELSE IF ~validate_transaction_id(metadata.transaction_id)
        THEN <<FALSE, "transaction_id khong hop le">>
    ELSE IF metadata.file_size < 0
        THEN <<FALSE, "file_size phai la so nguyen khong am">>
    ELSE IF ~validate_sender_id(metadata.sender_id)
        THEN <<FALSE, "sender_id khong hop le">>
    ELSE <<TRUE, "Metadata hop le">>

\* validation.py:244-301
validate_file_data_message(message) ==
    LET s == validate_message_structure(message) IN
    IF ~s[1] THEN s
    ELSE IF message.type # "FILE_DATA"
        THEN <<FALSE, "Message type phai la FILE_DATA">>
    ELSE IF ~Has(message.data, "iv") THEN <<FALSE, "Thieu field 'iv' trong data">>
    ELSE IF ~Has(message.data, "cipher")
        THEN <<FALSE, "Thieu field 'cipher' trong data">>
    ELSE IF ~Has(message.data, "hash") THEN <<FALSE, "Thieu field 'hash' trong data">>
    ELSE IF ~Has(message.data, "sig") THEN <<FALSE, "Thieu field 'sig' trong data">>
    ELSE IF ~Has(message.data, "metadata")
        THEN <<FALSE, "Thieu field 'metadata' trong data">>
    ELSE IF ~validate_base64(message.data.iv)
        THEN <<FALSE, "IV phai co format base64">>
    ELSE IF ~validate_base64(message.data.cipher)
        THEN <<FALSE, "Cipher phai co format base64">>
    ELSE IF ~validate_hex(message.data.hash) THEN <<FALSE, "Hash phai co format hex">>
    ELSE IF ~validate_base64(message.data.sig)
        THEN <<FALSE, "Signature phai co format base64">>
    ELSE validate_metadata(message.data.metadata)

\* validation.py:303-338
validate_ack_message(message) ==
    LET s == validate_message_structure(message) IN
    IF ~s[1] THEN s
    ELSE IF message.type # "ACK" THEN <<FALSE, "Message type phai la ACK">>
    ELSE IF ~Has(message.data, "message")
        THEN <<FALSE, "Thieu field 'message' trong data">>
    ELSE IF ~Has(message.data, "transaction_id")
        THEN <<FALSE, "Thieu field 'transaction_id' trong data">>
    ELSE IF ~validate_transaction_id(message.data.transaction_id)
        THEN <<FALSE, "transaction_id khong hop le">>
    ELSE <<TRUE, "ACK message hop le">>

\* validation.py:340-375
validate_nack_message(message) ==
    LET s == validate_message_structure(message) IN
    IF ~s[1] THEN s
    ELSE IF message.type # "NACK" THEN <<FALSE, "Message type phai la NACK">>
    ELSE IF ~Has(message.data, "error")
        THEN <<FALSE, "Thieu field 'error' trong data">>
    ELSE IF ~Has(message.data, "transaction_id")
        THEN <<FALSE, "Thieu field 'transaction_id' trong data">>
    ELSE IF ~validate_transaction_id(message.data.transaction_id)
        THEN <<FALSE, "transaction_id khong hop le">>
    ELSE <<TRUE, "NACK message hop le">>

(***************************************************************************)
(* ProtocolHandler (protocol_handler.py). The handler's fields are carried *)
(* in a record h so that the calls one method makes compose:               *)
(*   h.current_state, h.previous_state, h.state_history,                   *)
(*   h.active_transactions, h.completed_transactions.                      *)
(***************************************************************************)
EmptyDict == <<>>      \* {} ; also what `x or {}` makes of None

NoMessage == <<>>      \* message=None

NoResponse == <<>>     \* response_data None

\* A faulty change_state that never moves: C5 must tell it from the real one.
change_state_stuck(h, new_state, reason) == h

\* protocol_handler.py:211-225
change_state(h, new_state, reason) ==
    IF new_state # h.current_state
    THEN [h EXCEPT !.previous_state = h.current_state,
                   !.current_state = new_state,
                   !.state_history = Append(@, <<new_state, reason>>)]
    ELSE h

\* A faulty start_transaction that never looks for an existing record: C18
\* must tell it from the real one.
start_transaction_overwrite(h, transaction_id, initiator, target, file_info, now) ==
    [h |-> [h EXCEPT !.active_transactions =
              (transaction_id :>
                  [id |-> transaction_id,
                   initiator |-> initiator,
                   target |-> target,
                   start_time |-> now,
                   state |-> IDLE,
                   file_info |-> file_info,
                   messages |-> <<>>,
                   errors |-> <<>>]) @@ @],
     ret |-> TRUE]

\* protocol_handler.py:227-264 ; returns [h, ret]. file_info is the dict
\* stored, `file_info or {}`.
start_transaction(h, transaction_id, initiator, target, file_info, now) ==
    IF transaction_id \in DOMAIN h.active_transactions
    THEN [h |-> h, ret |-> FALSE]
    ELSE [h |-> [h EXCEPT !.active_transactions =
                    (transaction_id :>
                        [id |-> transaction_id,
                         initiator |-> initiator,
                         target |-> target,
                         start_time |-> now,
                         state |-> IDLE,
                         file_info |-> file_info,
                         messages |-> <<>>,
                         errors |-> <<>>]) @@ @],
          ret |-> TRUE]

\* protocol_handler.py:266-310 ; returns [h, ret]. `state`, `message` and
\* `error` are None when not passed (message: NoMessage; `if message:` is
\* false for None and for an empty dict alike). A dict message has no attribute
\* `timestamp`: the AttributeError is caught after the state was written, and
\* the method returns False without logging the message or the error.
update_transaction(h, transaction_id, state, message, isObj, error, now) ==
    IF transaction_id \notin DOMAIN h.active_transactions
    THEN [h |-> h, ret |-> FALSE]
    ELSE
      LET t0 == h.active_transactions[transaction_id]
          t1 == IF state # None THEN [t0 EXCEPT !.state = state] ELSE t0
          raised == message # NoMessage /\ ~isObj
          t2 == IF message # NoMessage /\ isObj
                THEN [t1 EXCEPT !.messages = Append(@,
                        [timestamp |-> message.timestamp,
                         type |-> message.type,
                         source |-> message.source,
                         destination |-> message.destination])]
                ELSE t1
          t3 == IF error # None /\ ~raised
                THEN [t2 EXCEPT !.errors = Append(@,
                        [timestamp |-> now, error |-> error])]
                ELSE t2
      IN [h |-> [h EXCEPT !.active_transactions[transaction_id] = t3],
          ret |-> ~raised]

\* dict.pop(k) : the dict without key k
Pop(d, k) == [x \in DOMAIN d \ {k} |-> d[x]]

\* protocol_handler.py:312-345 ; returns [h, ret]. result is the dict stored,
\* `result or {}`.
complete_transaction(h, transaction_id, success, result, now) ==
    IF transaction_id \notin DOMAIN h.active_transactions
    THEN [h |-> h, ret |-> FALSE]
    ELSE
      LET t == h.active_transactions[transaction_id]
          done == [id |-> t.id, initiator |-> t.initiator, target |-> t.target,
                   start_time |-> t.start_time, state |-> t.state,
                   file_info |-> t.file_info, messages |-> t.messages,
                   errors |-> t.errors,
                   end_time |-> now,
                   duration |-> now - t.start_time,
                   success |-> success,
                   result |-> result]
      IN [h |-> [h EXCEPT
                   !.active_transactions = Pop(@, transaction_id),
                   !.completed_transactions =
                       (transaction_id :> done) @@ @],
          ret |-> TRUE]

\* The common shape of _handle_hello .. _handle_file_data: update the
\* transaction named by the message (if any), then change state.
\* msg_dict.get('transaction_id') is falsy when the key is absent or None.
HandleUpdate(h, message, isObj, tx_state, now) ==
    IF Get(message, "transaction_id") # None
    THEN update_transaction(h, message.transaction_id, tx_state, message,
                            isObj, None, now).h
    ELSE h

component_id == "server1"   \* self.component_id (server_intermediate.py:62)

Ret(success, msg, data) == [success |-> success, msg |-> msg, data |-> data]

\* A faulty _handle_hello that validates only after it has acted: C7 must
\* tell it from the real one.
_handle_hello_late(h, message, isObj, now) ==
    LET v == validate_hello_message(message) IN
    [h |-> change_state(HandleUpdate(h, message, isObj, HANDSHAKE, now),
                        HANDSHAKE, "Received Hello"),
     ret |-> IF ~v[1] THEN Ret(FALSE, v[2], NoResponse)
             ELSE Ret(TRUE, "Hello processed successfully",
                      [message |-> "Ready!", receiver_id |-> component_id])]

\* protocol_handler.py:348-363
_handle_hello(h, message, isObj, now) ==
    LET v == validate_hello_message(message) IN
    IF ~v[1] THEN [h |-> h, ret |-> Ret(FALSE, v[2], NoResponse)]
    ELSE [h |-> change_state(HandleUpdate(h, message, isObj, HANDSHAKE, now),
                             HANDSHAKE, "Received Hello"),
          ret |-> Ret(TRUE, "Hello processed successfully",
                      [message |-> "Ready!", receiver_id |-> component_id])]

\* protocol_handler.py:365-376
_handle_ready(h, message, isObj, now) ==
    LET v == validate_ready_message(message) IN
    IF ~v[1] THEN [h |-> h, ret |-> Ret(FALSE, v[2], NoResponse)]
    ELSE [h |-> change_state(HandleUpdate(h, message, isObj, HANDSHAKE, now),
                             KEY_EXCHANGE, "Received Ready"),
          ret |-> Ret(TRUE, "Ready processed successfully", NoResponse)]

\* protocol_handler.py:378-388
_handle_public_key(h, message, isObj, now) ==
    LET v == validate_public_key_message(message) IN
    IF ~v[1] THEN [h |-> h, ret |-> Ret(FALSE, v[2], NoResponse)]
    ELSE [h |-> HandleUpdate(h, message, isObj, KEY_EXCHANGE, now),
          ret |-> Ret(TRUE, "Public Key processed successfully", NoResponse)]

\* protocol_handler.py:390-401
_handle_session_key(h, message, isObj, now) ==
    LET v == validate_session_key_message(message) IN
    IF ~v[1] THEN [h |-> h, ret |-> Ret(FALSE, v[2], NoResponse)]
    ELSE [h |-> change_state(HandleUpdate(h, message, isObj, KEY_EXCHANGE, now),
                             FILE_TRANSFER, "Session Key received"),
          ret |-> Ret(TRUE, "Session Key processed successfully", NoResponse)]

\* protocol_handler.py:403-414
_handle_file_data(h, message, isObj, now) ==
    LET v == validate_file_data_message(message) IN
    IF ~v[1] THEN [h |-> h, ret |-> Ret(FALSE, v[2], NoResponse)]
    ELSE [h |-> change_state(HandleUpdate(h, message, isObj, FILE_TRANSFER, now),
                             ACK_WAIT, "File Data received"),
          ret |-> Ret(TRUE, "File Data processed successfully", NoResponse)]

\* The tail of _handle_ack / _handle_nack: complete the transaction named by
\* the message (if any).
HandleComplete(h, message, success, result, now) ==
    IF Get(message, "transaction_id") # None
    THEN complete_transaction(h, message.transaction_id, success, result, now).h
    ELSE h

\* protocol_handler.py:416-432
_handle_ack(h, message, isObj, now) ==
    LET v == validate_ack_message(message) IN
    IF ~v[1] THEN [h |-> h, ret |-> Ret(FALSE, v[2], NoResponse)]
    ELSE [h |-> HandleComplete(
                  change_state(HandleUpdate(h, message, isObj, COMPLETED, now),
                               COMPLETED, "Received ACK"),
                  message, TRUE,
                  [status |-> "success", message |-> message.data.message], now),
          ret |-> Ret(TRUE, "ACK processed successfully", NoResponse)]

\* protocol_handler.py:434-450
_handle_nack(h, message, isObj, now) ==
    LET v == validate_nack_message(message) IN
    IF ~v[1] THEN [h |-> h, ret |-> Ret(FALSE, v[2], NoResponse)]
    ELSE [h |-> HandleComplete(
                  change_state(HandleUpdate(h, message, isObj, ERROR, now),
                               ERROR, "Received NACK"),
                  message, FALSE,
                  [status |-> "failed", error |-> message.data.error], now),
          ret |-> Ret(TRUE, "NACK processed successfully", NoResponse)]

\* protocol_handler.py:452-457
_handle_disconnect(h, message) ==
    [h |-> change_state(h, IDLE, "Received Disconnect"),
     ret |-> Ret(TRUE, "Disconnect processed successfully", NoResponse)]

\* protocol_handler.py:459-467
_handle_heartbeat(h, message) ==
    [h |-> h, ret |-> Ret(TRUE, "Heartbeat processed successfully",
                 [component_id |-> component_id])]

\* protocol_handler.py:173-209 ; dispatch on the message type
process_message(h, message, isObj, now) ==
    LET msg_type == Get(message, "type") IN
    IF msg_type \notin MessageType
    THEN [h |-> h, ret |-> Ret(FALSE, "Unknown message type", NoResponse)]
    ELSE CASE msg_type = "HELLO" -> _handle_hello(h, message, isObj, now)
           [] msg_type = "READY" -> _handle_ready(h, message, isObj, now)
           [] msg_type = "PUBLIC_KEY" -> _handle_public_key(h, message, isObj, now)
           [] msg_type = "SESSION_KEY" -> _handle_session_key(h, message, isObj, now)
           [] msg_type = "FILE_DATA" -> _handle_file_data(h, message, isObj, now)
           [] msg_type = "ACK" -> _handle_ack(h, message, isObj, now)
           [] msg_type = "NACK" -> _handle_nack(h, message, isObj, now)
           [] msg_type = "DISCONNECT" -> _handle_disconnect(h, message)
           [] msg_type = "HEARTBEAT" -> _handle_heartbeat(h, message)

(***************************************************************************)
(* Inputs of the ProtocolHandler specification                             *)
(***************************************************************************)
B64(v) == [enc |-> "b64", val |-> v]

Hex(v) == [enc |-> "hex", val |-> v]

Pem(v) == [enc |-> "pem", val |-> v]

Raw(v) == [enc |-> "raw", val |-> v]

SampleMetadata ==
    [filename |-> "hello.txt", timestamp |-> 0, transaction_id |-> "tx_1000_demo",
     file_size |-> 10, sender_id |-> "sender"]

SampleFileData ==
    [iv |-> B64("iv"), cipher |-> B64("cipher"), hash |-> Hex("hash"),
     sig |-> B64("sig"), metadata |-> SampleMetadata]

\* For each message type, data that the type's validator accepts ...
GoodData(type) ==
    CASE type = "HELLO" -> [message |-> "Hello!", sender_id |-> "sender"]
      [] type = "READY" -> [message |-> "Ready!", receiver_id |-> "receiver"]
      [] type = "PUBLIC_KEY" -> [public_key |-> Pem("pk")]
      [] type = "SESSION_KEY" -> [encrypted_session_key |-> B64("esk")]
      [] type = "FILE_DATA" -> SampleFileData
      [] type = "ACK" -> [message |-> "ok", transaction_id |-> "tx_1000_demo"]
      [] type = "NACK" -> [error |-> "bad", transaction_id |-> "tx_1000_demo"]
      [] OTHER -> EmptyDict

\* ... and data that it rejects.
BadData(type) ==
    CASE type = "HELLO" -> {[message |-> "Hi", sender_id |-> "sender"],
                            [message |-> "Hello!"],
                            [message |-> "Hello!", sender_id |-> "bad id!"]}
      [] type = "READY" -> {[message |-> "Ready!"]}
      [] type = "PUBLIC_KEY" -> {[public_key |-> Raw("pk")]}
      [] type = "SESSION_KEY" -> {[encrypted_session_key |-> Raw("esk")]}
      [] type = "FILE_DATA" ->
            {[SampleFileData EXCEPT !.cipher = Raw("cipher")],
             [SampleFileData EXCEPT !.metadata.file_size = -1]}
      [] type = "ACK" -> {[message |-> "ok"]}
      [] type = "NACK" -> {[error |-> "bad"]}
      [] OTHER -> {}

Msg(type, data) ==
    [type |-> type, source |-> "sender", destination |-> "receiver",
     data |-> data, timestamp |-> 0]

WithTx(m, tid) == IF tid = None THEN m ELSE m @@ ("transaction_id" :> tid)

\* Messages that have every top-level field
WholeMessages ==
    { WithTx(Msg(td[1], td[2]), tid) :
        td \in { <<type, GoodData(type)>> : type \in MessageType \cup {"BOGUS"} }
               \cup UNION { { <<type, d>> : d \in BadData(type) }
                            : type \in MessageType },
        tid \in TxIds \cup {None} }

Drop(m, k) == [x \in DOMAIN m \ {k} |-> m[x]]

\* Messages with a missing or ill-typed top-level field
BrokenMessages ==
    UNION { { Drop(Msg(type, GoodData(type)), "source"),
              Drop(Msg(type, GoodData(type)), "type"),
              [Msg(type, GoodData(type)) EXCEPT !.destination = "#badtype"],
              [Msg(type, GoodData(type)) EXCEPT !.data = [notdict |-> TRUE]] }
            : type \in {"HELLO", "FILE_DATA", "ACK"} }

\* The (message, isObj) pairs passed to process_message: a ProtocolMessage
\* object (isObj) always has every field.
PHInputs ==
    { <<m, o>> : m \in WholeMessages, o \in BOOLEAN } \cup
    { <<m, FALSE>> : m \in BrokenMessages }

Initiators == {"sender", "server1"}

Results == {EmptyDict, [status |-> "manual"]}

(***************************************************************************)
(* The ProtocolHandler state machine                                       *)
(***************************************************************************)
H == [current_state |-> current_state,
      previous_state |-> previous_state,
      state_history |-> state_history,
      active_transactions |-> active_transactions,
      completed_transactions |-> completed_transactions]

\* One call: the handler's fields and the returned value are replaced by the
\* call's outcome r = [h, ret].
Apply(r) ==
    /\ current_state' = r.h.current_state
    /\ previous_state' = r.h.previous_state
    /\ state_history' = r.h.state_history
    /\ active_transactions' = r.h.active_transactions
    /\ completed_transactions' = r.h.completed_transactions
    /\ ph_ret' = r.ret

Install(r) ==
    /\ ph_calls < MaxCalls
    /\ ph_calls' = ph_calls + 1
    /\ Apply(r)
    /\ UNCHANGED <<flow_pc, recvVars, relayVars>>

\* protocol_handler.py:79-86
PHInit ==
    /\ current_state = IDLE
    /\ previous_state = IDLE
    /\ state_history = <<>>
    /\ active_transactions = <<>>
    /\ completed_transactions = <<>>
    /\ ph_ret = Ret(TRUE, "init", NoResponse)
    /\ ph_calls = 0

\* time.time() is read only when a transaction is completed
NowFor(in) == IF Get(in[1], "type") \in {"ACK", "NACK"} THEN Times ELSE {0}

ProcessMessage ==
    \E in \in PHInputs : \E now \in NowFor(in) :
        Install(process_message(H, in[1], in[2], now))

StartTransaction ==
    \E tid \in TxIds, initiator \in Initiators, now \in Times :
        LET r == start_transaction(H, tid, initiator, "receiver", EmptyDict, now)
        IN Install([h |-> r.h, ret |-> Ret(r.ret, "start_transaction", NoResponse)])

UpdateTransaction ==
    \E tid \in TxIds, state \in {None, ERROR},
       in \in {<<NoMessage, FALSE>>, <<Msg("HELLO", GoodData("HELLO")), TRUE>>,
               <<Msg("HELLO", GoodData("HELLO")), FALSE>>},
       error \in {None, "err"} :
        LET r == update_transaction(H, tid, state, in[1], in[2], error, 0)
        IN Install([h |-> r.h, ret |-> Ret(r.ret, "update_transaction", NoResponse)])

CompleteTransaction ==
    \E tid \in TxIds, success \in BOOLEAN, result \in Results, now \in Times :
        LET r == complete_transaction(H, tid, success, result, now)
        IN Install([h |-> r.h, ret |-> Ret(r.ret, "complete_transaction", NoResponse)])

(***************************************************************************)
(* The protocol flow: a caller feeds one handler, fresh or with the        *)
(* transaction already started, the messages HELLO, READY, SESSION_KEY,    *)
(* FILE_DATA, ACK in that order, each one accepted by its validator.       *)
(***************************************************************************)
FlowTypes == <<"HELLO", "READY", "SESSION_KEY", "FILE_DATA", "ACK">>

FlowStates ==
    <<IDLE, HANDSHAKE, KEY_EXCHANGE, FILE_TRANSFER, ACK_WAIT, COMPLETED>>

FlowStep ==
    /\ flow_pc < Len(FlowTypes)
    /\ flow_pc' = flow_pc + 1
    /\ ph_calls' = ph_calls
    /\ UNCHANGED <<recvVars, relayVars>>
    /\ \E tid \in TxIds \cup {None}, isObj \in BOOLEAN, now \in Times :
          Apply(process_message(
                    H, WithTx(Msg(FlowTypes[flow_pc + 1],
                                  GoodData(FlowTypes[flow_pc + 1])), tid),
                    isObj, now))

FlowInit ==
    /\ flow_pc = 0
    /\ ph_calls = 0
    /\ ph_ret = Ret(TRUE, "init", NoResponse)
    /\ \E started \in BOOLEAN, initiator \in Initiators, now \in Times :
         LET h0 == [current_state |-> IDLE, previous_state |-> IDLE,
                    state_history |-> <<>>, active_transactions |-> <<>>,
                    completed_transactions |-> <<>>]
             h1 == IF started
                   THEN start_transaction(h0, "tx_1000_demo", initiator,
                                          "receiver", EmptyDict, now).h
                   ELSE h0
         IN /\ current_state = h1.current_state
            /\ previous_state = h1.previous_state
            /\ state_history = h1.state_history
            /\ active_transactions = h1.active_transactions
            /\ completed_transactions = h1.completed_transactions

(***************************************************************************)
(* Cryptography (crypto_handler.py), symbolically. Bytes are records with  *)
(* a field kind; a key pair is named by its owner: "S" the Sender, "R" the *)
(* Receiver, "A" a relay. DES session keys are the strings in SessionKeys. *)
(***************************************************************************)
Owners == {"S", "R", "A"}

SessionKeys == {"ks", "ka", "kt"}

\* generate_rsa_keypair: (private_key, public_key) of an owner
private_key(owner) == [priv |-> owner]

public_key(owner) == [pub |-> owner]

Junk == [kind |-> "junk"]

\* base64.b64encode(...).decode / base64.b64decode
b64encode(bytes) == B64(bytes)

b64decode(text) == text.val

\* crypto_handler.py:52-75. A result is [ok, val]; ok = FALSE is a raise.
export_key_to_pem(key) == Pem(key)

import_key_from_pem(pem_data) ==
    IF pem_data.enc = "pem" /\ pem_data.val \in { public_key(o) : o \in Owners }
    THEN [ok |-> TRUE, val |-> pem_data.val]
    ELSE [ok |-> FALSE, val |-> "RSA key format is not supported"]

\* crypto_handler.py:93-128 (PKCS#1 v1.5)
encrypt_session_key(session_key, pub) ==
    [kind |-> "rsa", key |-> session_key, to |-> pub]

decrypt_session_key(encrypted_key, priv) ==
    IF encrypted_key.kind = "rsa" /\ encrypted_key.to = public_key(priv.priv)
    THEN [ok |-> TRUE, val |-> encrypted_key.key]
    ELSE [ok |-> FALSE, val |-> "Failed to decrypt session key"]

\* crypto_handler.py:146-180 (DES-CBC with PKCS#7 padding). A wrong key
\* fails in unpad; with the right key a wrong IV changes only the first
\* plaintext block, so the padding still checks.
encrypt_file_des(file_data, session_key, iv) ==
    [kind |-> "des", data |-> file_data, key |-> session_key, iv |-> iv]

decrypt_file_des(ciphertext, session_key, iv) ==
    IF session_key = None
        THEN [ok |-> FALSE, val |-> "argument 'key' must be bytes"]
    ELSE IF ciphertext.kind = "des" /\ ciphertext.key = session_key
        THEN [ok |-> TRUE,
              val |-> IF ciphertext.iv = iv THEN ciphertext.data
                      ELSE [kind |-> "garbled", data |-> ciphertext.data]]
    ELSE [ok |-> FALSE, val |-> "Padding is incorrect."]

\* crypto_handler.py:182-235: SHA-512(IV || ciphertext) as a hex string
calculate_file_integrity_hash(iv, ciphertext) ==
    Hex([kind |-> "sha512", of |-> <<iv, ciphertext>>])

\* A faulty verify_file_integrity that accepts everything: C21 must tell it
\* from the real one.
verify_file_integrity_any(iv, ciphertext, expected_hash) == TRUE

\* crypto_handler.py:220-235
verify_file_integrity(iv, ciphertext, expected_hash) ==
    calculate_file_integrity_hash(iv, ciphertext) = expected_hash

\* A faulty verify_signature that accepts everything: C3 must tell it from
\* the real one.
verify_signature_any(metadata, signature_b64, pub) == TRUE

\* crypto_handler.py:253-298: RSA signature over SHA-512 of
\* json.dumps(metadata, sort_keys=True)
\* A metadata dict given to them is the sequence of its <<key, value>>
\* items in insertion order.
SortedKeys ==
    <<"file_size", "filename", "public_key_sender", "sender_id", "timestamp",
      "transaction_id">>

HasKey(metadata, k) == \E j \in DOMAIN metadata : metadata[j][1] = k

Lookup(metadata, k) ==
    metadata[CHOOSE j \in DOMAIN metadata : metadata[j][1] = k][2]

\* A faulty json.dumps that writes the items in insertion order whatever
\* sort_keys says: C34 must tell it from the real one.
json_dumps_unsorted(metadata, sort_keys) == metadata

\* json.dumps(metadata, sort_keys=sort_keys): the items in the order the
\* text has them
json_dumps(metadata, sort_keys) ==
    IF ~sort_keys THEN metadata
    ELSE LET keys == SelectSeq(SortedKeys, LAMBDA k : HasKey(metadata, k))
         IN [i \in 1..Len(keys) |-> <<keys[i], Lookup(metadata, keys[i])>>]

sign_metadata(metadata, priv) ==
    b64encode([kind |-> "sig", over |-> json_dumps(metadata, TRUE),
               by |-> public_key(priv.priv)])

verify_signature(metadata, signature_b64, pub) ==
    LET signature == b64decode(signature_b64) IN
    /\ signature.kind = "sig"
    /\ signature.over = json_dumps(metadata, TRUE)
    /\ signature.by = pub

\* The items of a metadata dict of a FILE_DATA message, in the order of the
\* literal that builds it (sender.py:292-299)
items(metadata) ==
    LET keys == SelectSeq(<<"filename", "timestamp", "transaction_id",
                            "file_size", "sender_id", "public_key_sender">>,
                          LAMBDA k : k \in DOMAIN metadata)
    IN [i \in 1..Len(keys) |-> <<keys[i], metadata[keys[i]]>>]

\* socket_handler.py:403-431 (the timestamp is not represented)
create_message(msg_type, data, source, destination, transaction_id) ==
    LET m0 == [type |-> msg_type, timestamp |-> 0, data |-> data]
        m1 == IF source \in {None, ""} THEN m0 ELSE m0 @@ ("source" :> source)
        m2 == IF destination \in {None, ""} THEN m1
              ELSE m1 @@ ("destination" :> destination)
    IN IF transaction_id \in {None, ""} THEN m2
       ELSE m2 @@ ("transaction_id" :> transaction_id)

(***************************************************************************)
(* Receiver (receiver.py). The receiver's fields are the record rc =       *)
(* [session_key, files, messages_received, errors]; files is the content   *)
(* of output_dir. _handle_message returns [rc, reply, steps]: reply is the *)
(* returned message (NoMessage for None) and steps lists, in the order     *)
(* they were made, the calls the FILE_DATA branch made.                    *)
(***************************************************************************)
receiver_id == "receiver"

\* on_new_file (receiver.py:43) is a callable handed to the constructor:
\* it is absent, or its call returns, or its call raises.
OnNewFile == {"absent", "returns", "raises"}

WriteFile(files, filename, file_data) ==
    [f \in DOMAIN files \cup {filename} |->
        IF f = filename THEN file_data ELSE files[f]]

\* receiver.py:166-256
_handle_file_data_message(rc, message, on_new_file) ==
    LET transaction_id == Get(message, "transaction_id")
        Nack(error) == create_message("NACK", [error |-> error], receiver_id,
                                      Get(message, "source"), transaction_id)
        v == validate_file_data_message(message)
        file_packet == message.data
        metadata == file_packet.metadata
        key == import_key_from_pem(metadata.public_key_sender)
        iv == b64decode(file_packet.iv)
        cipher == b64decode(file_packet.cipher)
        file_data == decrypt_file_des(cipher, rc.session_key, iv)
        written == [rc EXCEPT !.files =
                       WriteFile(rc.files, metadata.filename, file_data.val)]
    IN
    IF ~v[1] THEN [rc |-> rc, reply |-> Nack(v[2]), steps |-> <<>>]
    ELSE IF ~Has(metadata, "public_key_sender")
        THEN [rc |-> rc, steps |-> <<>>,
              reply |-> Nack("Thieu public key cua sender trong metadata")]
    ELSE IF ~key.ok
        THEN [rc |-> rc, reply |-> Nack(key.val),
              steps |-> <<"import_key_from_pem">>]
    ELSE IF ~verify_signature(items(metadata), file_packet.sig, key.val)
        THEN [rc |-> rc, reply |-> Nack("File khong hop le: Sai chu ky so!"),
              steps |-> <<"import_key_from_pem", "verify_signature">>]
    ELSE IF ~verify_file_integrity(iv, cipher, file_packet.hash)
        THEN [rc |-> rc, reply |-> Nack("File khong hop le: Sai hash toan ven!"),
              steps |-> <<"import_key_from_pem", "verify_signature",
                          "verify_file_integrity">>]
    ELSE IF ~file_data.ok
        THEN [rc |-> rc, reply |-> Nack(file_data.val),
              steps |-> <<"import_key_from_pem", "verify_signature",
                          "verify_file_integrity", "decrypt_file_des">>]
    ELSE IF on_new_file = "raises"
        THEN [rc |-> written, reply |-> Nack("on_new_file raised"),
              steps |-> <<"import_key_from_pem", "verify_signature",
                          "verify_file_integrity", "decrypt_file_des",
                          "write", "on_new_file">>]
    ELSE [rc |-> written,
          reply |-> create_message(
                        "ACK",
                        [message |-> "File received and verified successfully!"],
                        receiver_id, Get(message, "source"), transaction_id),
          steps |-> <<"import_key_from_pem", "verify_signature",
                      "verify_file_integrity", "decrypt_file_des", "write">>
                    \o (IF on_new_file = "absent" THEN <<>>
                        ELSE <<"on_new_file">>)]

\* A faulty SESSION_KEY branch that decrypts the key and does not keep it:
\* C20 must tell it from the real one.
_handle_session_key_message_forget(rc, message) ==
    [rc |-> rc, reply |-> NoMessage, steps |-> <<>>]

\* receiver.py:258-263; a raise is caught at receiver.py:267-270. steps
\* lists the crypto operations applied to the message's data, a raising one
\* included
_handle_session_key_message(rc, message) ==
    LET failed(steps) == [rc |-> [rc EXCEPT !.errors = @ + 1],
                          reply |-> NoMessage, steps |-> steps]
        data == message.data
    IN
    IF ~Has(data, "encrypted_session_key") THEN failed(<<>>)
    ELSE IF data.encrypted_session_key.enc # "b64"
        THEN failed(<<"b64decode">>)
    ELSE LET k == decrypt_session_key(b64decode(data.encrypted_session_key),
                                      private_key("R"))
         IN IF ~k.ok THEN failed(<<"b64decode", "decrypt_session_key">>)
            ELSE [rc |-> [rc EXCEPT !.session_key = k.val],
                  reply |-> NoMessage,
                  steps |-> <<"b64decode", "decrypt_session_key">>]

\* receiver.py:116-270
_handle_message(rc0, message, on_new_file) ==
    LET rc == [rc0 EXCEPT !.messages_received = @ + 1]
        silent == [rc |-> rc, reply |-> NoMessage, steps |-> <<>>]
        msg_type == Get(message, "type")
        transaction_id == Get(message, "transaction_id")
    IN
    IF ~validate_message_structure(message)[1] THEN silent
    ELSE IF msg_type = "HELLO"
        THEN IF ~validate_hello_message(message)[1] THEN silent
             ELSE [silent EXCEPT !.reply =
                      create_message("READY",
                                     [message |-> "Ready!",
                                      receiver_id |-> receiver_id],
                                     receiver_id, Get(message, "source"),
                                     transaction_id)]
    ELSE IF msg_type = "GET_PUBLIC_KEY"
        THEN [silent EXCEPT !.reply =
                 create_message("PUBLIC_KEY",
                                [public_key |-> export_key_to_pem(public_key("R"))],
                                receiver_id, Get(message, "source"),
                                transaction_id)]
    ELSE IF msg_type = "FILE_DATA"
        THEN _handle_file_data_message(rc, message, on_new_file)
    ELSE IF msg_type = "SESSION_KEY"
        THEN _handle_session_key_message(rc, message)
    ELSE silent

(***************************************************************************)
(* Sender (sender.py): the messages it builds                              *)
(***************************************************************************)
sender_id == "sender"

current_transaction_id == "tx_1000_demo"

NoKey == <<>>

FileContent == [kind |-> "plain", name |-> "contract"]

SenderIv == [kind |-> "iv", by |-> "S"]

\* sender.py:172-178
get_key_message ==
    create_message("GET_PUBLIC_KEY", EmptyDict, sender_id, "receiver",
                   current_transaction_id)

\* sender.py:183-193: the key taken from the PUBLIC_KEY reply, NoKey when
\* the reply is refused
request_public_key(pubkey_message, current) ==
    IF pubkey_message = NoMessage \/ Get(pubkey_message, "type") # "PUBLIC_KEY"
        THEN NoKey
    ELSE IF Get(pubkey_message, "transaction_id") # current
        THEN NoKey
    ELSE IF ~Has(pubkey_message.data, "public_key") THEN NoKey
    ELSE LET k == import_key_from_pem(pubkey_message.data.public_key)
         IN IF k.ok THEN k.val ELSE NoKey

\* sender.py:213-227
session_key_message(id, session_key, receiver_public_key, transaction_id) ==
    create_message(
        "SESSION_KEY",
        [encrypted_session_key |->
            b64encode(encrypt_session_key(session_key, receiver_public_key))],
        id, "receiver", transaction_id)

\* sender.py:270-318: the FILE_DATA message built by a party that holds the
\* key pair of owner and the session key
file_message(owner, id, file_data, file_name, session_key, iv, transaction_id) ==
    LET ciphertext == encrypt_file_des(file_data, session_key, iv)
        file_hash == calculate_file_integrity_hash(iv, ciphertext)
        metadata == [filename |-> file_name, timestamp |-> 0,
                     transaction_id |-> transaction_id, file_size |-> 10,
                     sender_id |-> id,
                     public_key_sender |-> export_key_to_pem(public_key(owner))]
        signature == sign_metadata(items(metadata), private_key(owner))
        file_packet == [iv |-> b64encode(iv), cipher |-> b64encode(ciphertext),
                        hash |-> file_hash, sig |-> signature,
                        metadata |-> metadata]
    IN create_message("FILE_DATA", file_packet, id, "receiver", transaction_id)

(***************************************************************************)
(* The relays between Sender and Receiver are not trusted: a relay holds   *)
(* its own key pair "A" and session key "ka", sees what the Sender sent,   *)
(* and hands the Receiver any message it can build.                        *)
(***************************************************************************)
RelayIv == [kind |-> "iv", by |-> "A"]

RelayContent == [kind |-> "plain", name |-> "forged"]

\* Session keys a relay knows: its own, and the Sender's when the Sender
\* encrypted it for the relay's public key.
RelayKeys(sent) ==
    {"ka"} \cup
    { k \in SessionKeys :
        session_key_message(sender_id, k, public_key("A"),
                            current_transaction_id) \in sent }

\* What a relay can make of a FILE_DATA message m in transit
Tampered(m) ==
    LET d == m.data
        iv == b64decode(d.iv)
        cipher == b64decode(d.cipher)
        forged == encrypt_file_des(RelayContent, "ka", iv)
        renamed == [d.metadata EXCEPT !.filename = "evil.txt"]
        resigned == [renamed EXCEPT
                        !.public_key_sender = export_key_to_pem(public_key("A"))]
    IN { m,
         [m EXCEPT !.data.cipher = b64encode(forged)],
         [m EXCEPT !.data.cipher = b64encode(forged),
                   !.data.hash = calculate_file_integrity_hash(iv, forged)],
         [m EXCEPT !.data.iv = b64encode(RelayIv),
                   !.data.hash = calculate_file_integrity_hash(RelayIv, cipher)],
         [m EXCEPT !.data.sig = b64encode(Junk)],
         [m EXCEPT !.data.metadata = renamed],
         [m EXCEPT !.data.metadata = resigned,
                   !.data.sig = sign_metadata(items(resigned), private_key("A"))],
         [m EXCEPT !.data.metadata = Drop(d.metadata, "public_key_sender")],
         [m EXCEPT !.data.metadata.public_key_sender = Raw(public_key("S"))],
         [m EXCEPT !.data.cipher = Raw(cipher)] }

\* The messages of a second transfer of the Sender, tx_2000_demo, with
\* its own session key and file (sender.py:197-341)
OtherContent == [kind |-> "plain", name |-> "annex"]

OtherTransaction ==
    { WithTx(Msg("HELLO", GoodData("HELLO")), "tx_2000_demo"),
      session_key_message(sender_id, "kt", public_key("R"), "tx_2000_demo"),
      file_message("S", sender_id, OtherContent, "annex.txt", "kt", SenderIv,
                   "tx_2000_demo") }

RelayMessages(sent) ==
    UNION { IF Get(m, "type") = "FILE_DATA" THEN Tampered(m) ELSE {m}
            : m \in sent }
    \cup { session_key_message("server2", k, public_key("R"),
                               current_transaction_id) : k \in RelayKeys(sent) }
    \cup { file_message("A", sender_id, RelayContent, "evil.txt", k, RelayIv,
                        current_transaction_id) : k \in RelayKeys(sent) }
    \cup { Msg("SESSION_KEY", [encrypted_session_key |-> b64encode(Junk)]),
           Msg("SESSION_KEY", [encrypted_session_key |-> Raw(Junk)]),
           Msg("HELLO", GoodData("HELLO")),
           Drop(Msg("HELLO", GoodData("HELLO")), "source"),
           Msg("BOGUS", EmptyDict) }

(***************************************************************************)
(* The Sender / relay / Receiver state machine                             *)
(***************************************************************************)
RC == [session_key |-> r_session_key, files |-> r_files,
       messages_received |-> r_messages_received, errors |-> r_errors]

\* What one call of Receiver._handle_message did: the message's type and
\* transaction, the value of self.session_key it stored (SESSION_KEY) or read
\* (any other type), whether it raised into the outer except, whether it
\* called decrypt_file_des, and the type of its reply
HandledRecord(message, r) ==
    [type |-> Get(message, "type"),
     transaction_id |-> Get(message, "transaction_id"),
     key |-> IF Get(message, "type") = "SESSION_KEY"
             THEN r.rc.session_key ELSE r_session_key,
     raised |-> r.rc.errors # r_errors,
     decrypt |-> \E i \in DOMAIN r.steps : r.steps[i] = "decrypt_file_des",
     written |-> \E i \in DOMAIN r.steps : r.steps[i] = "write",
     reply |-> Get(r.reply, "type")]

\* One call of Receiver._handle_message with outcome r = [rc, reply, steps]
Handled(message, r) ==
    /\ r_session_key' = r.rc.session_key
    /\ r_files' = r.rc.files
    /\ r_messages_received' = r.rc.messages_received
    /\ r_errors' = r.rc.errors
    /\ r_reply' = r.reply
    /\ r_steps' = r.steps
    /\ r_msg' = message
    /\ r_handled' = Append(r_handled, HandledRecord(message, r))

\* receiver.py:62-82 and sender.py:55-58
RecvInit ==
    /\ r_session_key = None
    /\ r_files = <<>>
    /\ r_messages_received = 0
    /\ r_errors = 0
    /\ r_reply = NoMessage
    /\ r_steps = <<>>
    /\ r_msg = NoMessage
    /\ r_handled = <<>>
    /\ s_pc = "connected"
    /\ s_receiver_public_key = NoKey
    /\ s_session_key = None
    /\ s_sent = {}

\* A relay hands the Receiver a message of its choice.
Deliver ==
    /\ r_messages_received < MaxDeliver
    /\ \E message \in RelayMessages(s_sent) \cup OtherTransaction,
          on_new_file \in OnNewFile :
          Handled(message, _handle_message(RC, message, on_new_file))
    /\ UNCHANGED <<senderVars, phVars, flow_pc, relayVars>>

\* Sender.request_public_key (sender.py:161-195): GET_PUBLIC_KEY goes out and
\* the Sender blocks for the reply, which is the Receiver's own when the
\* relays pass both messages on, and a relay's otherwise.
SenderRequestPublicKey ==
    /\ s_pc = "connected"
    /\ s_sent' = s_sent \cup {get_key_message}
    /\ UNCHANGED <<s_session_key, phVars, flow_pc, relayVars>>
    /\ \/ /\ r_messages_received < MaxDeliver
          /\ LET r == _handle_message(RC, get_key_message, "absent")
                 k == request_public_key(r.reply, current_transaction_id)
             IN /\ Handled(get_key_message, r)
                /\ s_receiver_public_key' = k
                /\ s_pc' = IF k = NoKey THEN "failed" ELSE "have_key"
       \/ /\ \E pubkey_message \in
                   { NoMessage,
                     create_message("PUBLIC_KEY",
                                    [public_key |-> export_key_to_pem(public_key("A"))],
                                    receiver_id, sender_id, current_transaction_id),
                     create_message("PUBLIC_KEY",
                                    [public_key |-> export_key_to_pem(public_key("R"))],
                                    receiver_id, sender_id, "tx_2000_demo") } :
                LET k == request_public_key(pubkey_message, current_transaction_id)
                IN /\ s_receiver_public_key' = k
                   /\ s_pc' = IF k = NoKey THEN "failed" ELSE "have_key"
          /\ UNCHANGED recvOnlyVars

\* Sender.exchange_keys (sender.py:197-236)
SenderExchangeKeys ==
    /\ s_pc = "have_key"
    /\ s_session_key' = "ks"
    /\ s_sent' = s_sent \cup
                   {session_key_message(sender_id, "ks", s_receiver_public_key,
                                        current_transaction_id)}
    /\ s_pc' = "keyed"
    /\ UNCHANGED <<s_receiver_public_key, recvOnlyVars, phVars, flow_pc,
                   relayVars>>

\* Sender.encrypt_and_send_file (sender.py:238-341)
SenderSendFile ==
    /\ s_pc = "keyed"
    /\ s_sent' = s_sent \cup
                   {file_message("S", sender_id, FileContent, "hello.txt",
                                 s_session_key, SenderIv, current_transaction_id)}
    /\ s_pc' = "sent"
    /\ UNCHANGED <<s_receiver_public_key, s_session_key, recvOnlyVars,
                   phVars, flow_pc, relayVars>>

(***************************************************************************)
(* IntermediateServer (server_intermediate.py). The server's fields are    *)
(* the record sv = [message_queue, messages_received, messages_forwarded,  *)
(* messages_dropped, errors].                                              *)
(***************************************************************************)
server_id == "server1"

ForwardTimeout == 10   \* seconds, upstream_socket.settimeout(10)

SenderTimeout == 30    \* seconds, the Sender's default timeout

RetryLimit == 3      \* the literal in `queue_item['retry_count'] < 3`

\* What the upstream peer does on the connection _forward_message opens:
\* whether it accepts the connection, and the framed replies it writes (a
\* second one within half a second of the first).
Reply(n) == [type |-> "READY", source |-> "server2", reply |-> n]

Upstreams ==
    { [reachable |-> FALSE, replies |-> <<>>],
      [reachable |-> TRUE, replies |-> <<>>],
      [reachable |-> TRUE, replies |-> <<Reply(1)>>],
      [reachable |-> TRUE, replies |-> <<Reply(1), Reply(2)>>] }

\* A faulty _forward_message that puts the relay's id into the reply: C38
\* must tell it from the real one.
_forward_message_stamped(message, upstream) ==
    IF ~upstream.reachable THEN NoMessage
    ELSE IF Len(upstream.replies) = 0 THEN NoMessage
    ELSE [upstream.replies[1] EXCEPT !.source = server_id]

\* server_intermediate.py:236-290: the response, NoMessage for None
_forward_message(message, upstream) ==
    IF ~upstream.reachable THEN NoMessage
    ELSE IF Len(upstream.replies) = 0 THEN NoMessage
    ELSE upstream.replies[1]

\* A faulty handler that forwards whatever has a destination, its own id
\* included: C33 must tell it from the real one.
_relay_handle_message_any(sv0, message, upstream) ==
    LET sv == [sv0 EXCEPT !.messages_received = @ + 1]
        destination == Get(message, "destination")
    IN IF destination \notin {None, ""}
       THEN [sv |-> sv, response |-> _forward_message(message, upstream),
             forwarded |-> <<message>>]
       ELSE [sv |-> sv, response |-> NoMessage, forwarded |-> <<>>]

\* server_intermediate.py:163-183: [sv, response, forwarded], forwarded
\* listing what the handler gave to _forward_message
_relay_handle_message(sv0, message, upstream) ==
    LET sv == [sv0 EXCEPT !.messages_received = @ + 1]
        destination == Get(message, "destination")
    IN IF destination \notin {None, ""} /\ destination # server_id
       THEN [sv |-> sv, response |-> _forward_message(message, upstream),
             forwarded |-> <<message>>]
       ELSE [sv |-> sv, response |-> NoMessage, forwarded |-> <<>>]

\* socket_handler.py:284-304: the frames _handle_client writes back for the
\* callback's response; a list response is [list |-> <<...>>].
SentFrames(response) ==
    IF response = NoMessage THEN <<>>
    ELSE IF Has(response, "list") THEN response.list
    ELSE <<response>>

\* server_intermediate.py:185-193; id numbers the entries in append order
_queue_message_for_forwarding(sv, message, id) ==
    [sv EXCEPT !.message_queue =
        Append(@, [message |-> message, retry_count |-> 0, id |-> id])]

\* A faulty worker that drops an entry at its first failure: C8 must tell it
\* from the real one.
_forwarding_worker_no_retry(sv, queue_item, success) ==
    IF success # NoMessage
        THEN [sv EXCEPT !.messages_forwarded = @ + 1]
    ELSE [sv EXCEPT !.messages_dropped = @ + 1]

\* A faulty worker that forgets an entry whose forward failed: C37 must tell
\* it from the real one.
_forwarding_worker_lose(sv, queue_item, success) ==
    IF success # NoMessage
        THEN [sv EXCEPT !.messages_forwarded = @ + 1]
    ELSE sv

\* server_intermediate.py:208-219: what one turn of the worker loop does
\* with the entry it popped, success being what _forward_message returned
_forwarding_worker(sv, queue_item, success) ==
    IF success # NoMessage
        THEN [sv EXCEPT !.messages_forwarded = @ + 1]
    ELSE IF queue_item.retry_count < RetryLimit
        THEN [sv EXCEPT !.message_queue =
                 Append(@, [queue_item EXCEPT !.retry_count = @ + 1])]
    ELSE [sv EXCEPT !.messages_dropped = @ + 1]

(***************************************************************************)
(* The IntermediateServer state machine                                    *)
(***************************************************************************)
NoItem == <<>>

SV == [message_queue |-> sv_message_queue,
       messages_received |-> sv_messages_received,
       messages_forwarded |-> sv_messages_forwarded,
       messages_dropped |-> sv_messages_dropped,
       errors |-> sv_errors]

SetSV(sv) ==
    /\ sv_message_queue' = sv.message_queue
    /\ sv_messages_received' = sv.messages_received
    /\ sv_messages_forwarded' = sv.messages_forwarded
    /\ sv_messages_dropped' = sv.messages_dropped
    /\ sv_errors' = sv.errors

\* server_intermediate.py:69-87
RelayInit ==
    /\ sv_message_queue = <<>>
    /\ sv_messages_received = 0
    /\ sv_messages_forwarded = 0
    /\ sv_messages_dropped = 0
    /\ sv_errors = 0
    /\ sv_item = NoItem
    /\ sv_sent = <<>>
    /\ up_replies = <<>>
    /\ fw_ok = 0
    /\ fw = <<>>
    /\ sv_in = NoMessage
    /\ up_sent = <<>>

InboundMessages ==
    { Msg("HELLO", GoodData("HELLO")),
      [Msg("HELLO", GoodData("HELLO")) EXCEPT !.destination = server_id],
      [Msg("HELLO", GoodData("HELLO")) EXCEPT !.destination = ""],
      Drop(Msg("HELLO", GoodData("HELLO")), "destination") }

\* A client's message is handled (socket_handler.py:278-304 calling
\* server_intermediate.py:163-183) and the response is written back.
RelayHandleMessage ==
    /\ sv_messages_received < MaxInbound
    /\ \E message \in InboundMessages, upstream \in Upstreams :
          LET r == _relay_handle_message(SV, message, upstream)
          IN /\ SetSV(r.sv)
             /\ sv_in' = message
             /\ up_sent' = r.forwarded
             /\ sv_sent' = SentFrames(r.response)
             /\ up_replies' = IF r.forwarded # <<>> /\ upstream.reachable
                              THEN upstream.replies ELSE <<>>
             /\ fw_ok' = IF r.response # NoMessage THEN fw_ok + 1 ELSE fw_ok
    /\ UNCHANGED <<sv_item, fw>>
    /\ UNCHANGED <<phVars, flow_pc, recvVars, concVars, e2eVars, wireVars>>

QueueMessageForForwarding ==
    /\ Len(fw) < MaxQueued
    /\ SetSV(_queue_message_for_forwarding(SV, Msg("HELLO", GoodData("HELLO")),
                                           Len(fw) + 1))
    /\ fw' = Append(fw, [attempts |-> 0, failed |-> 0, drops |-> 0])
    /\ UNCHANGED <<sv_item, sv_sent, up_replies, fw_ok, sv_in, up_sent>>
    /\ UNCHANGED <<phVars, flow_pc, recvVars, concVars, e2eVars, wireVars>>

\* server_intermediate.py:201-206: the worker takes the head of the queue
WorkerPop ==
    /\ sv_item = NoItem
    /\ sv_message_queue # <<>>
    /\ sv_item' = Head(sv_message_queue)
    /\ sv_message_queue' = Tail(sv_message_queue)
    /\ UNCHANGED <<sv_messages_received, sv_messages_forwarded,
                   sv_messages_dropped, sv_errors, sv_sent, up_replies,
                   fw_ok, fw, sv_in, up_sent>>
    /\ UNCHANGED <<phVars, flow_pc, recvVars, concVars, e2eVars, wireVars>>

\* server_intermediate.py:208-219: it forwards the entry and books the result
WorkerForward ==
    /\ sv_item # NoItem
    /\ \E upstream \in Upstreams :
          LET success == _forward_message(sv_item.message, upstream)
              sv == _forwarding_worker(SV, sv_item, success)
              failed == IF success = NoMessage THEN 1 ELSE 0
          IN /\ SetSV(sv)
             /\ fw_ok' = fw_ok + (1 - failed)
             /\ fw' = [fw EXCEPT ![sv_item.id] =
                          [attempts |-> @.attempts + 1,
                           failed |-> @.failed + failed,
                           drops |-> @.drops + (sv.messages_dropped
                                                - sv_messages_dropped)]]
    /\ sv_item' = NoItem
    /\ UNCHANGED <<sv_sent, up_replies, sv_in, up_sent>>
    /\ UNCHANGED <<phVars, flow_pc, recvVars, concVars, e2eVars, wireVars>>

(***************************************************************************)
(* The IntermediateServer under concurrent connections. The socket server  *)
(* runs one _handle_client thread per accepted connection                  *)
(* (socket_handler.py:240-314); each thread calls                          *)
(* IntermediateServer._handle_message for the messages of its connection.  *)
(* A thread is named by its connection.                                    *)
(***************************************************************************)
Conns == {"c1", "c2"}

\* What the clients send: a message to forward and one for the relay itself
ConnMessages ==
    { Msg("HELLO", GoodData("HELLO")),
      [Msg("HELLO", GoodData("HELLO")) EXCEPT !.destination = server_id] }

\* The k-th message written on connection c
Numbered(message, c, k) == message @@ ("transaction_id" :> <<c, k>>)

\* server_intermediate.py:170-171
Forwardable(message) ==
    Get(message, "destination") \notin {None, "", server_id}

\* A faulty message loop that leaves when the callback returns None: C11
\* must tell it from the real one.
_handle_client_break(response) ==
    [frames |-> SentFrames(response), open |-> response # NoMessage]

\* socket_handler.py:284-305: what the message loop does with the callback's
\* response: the frames it writes, and whether it stays in the loop
_handle_client(response) ==
    [frames |-> SentFrames(response), open |-> TRUE]

ConcInit ==
    /\ cn_pc = [c \in Conns |-> "unconnected"]
    /\ cn_inbox = [c \in Conns |-> <<>>]
    /\ cn_nsent = [c \in Conns |-> 0]
    /\ cn_msg = [c \in Conns |-> NoMessage]
    /\ cn_load = [c \in Conns |-> 0]
    /\ cn_out = [c \in Conns |-> <<>>]
    /\ cn_hist = [c \in Conns |-> <<>>]
    /\ client_handlers = {}
    /\ connections = <<>>
    /\ connection_lock = "free"
    /\ mr_writers = {}
    /\ ch_writers = {}
    /\ table_writers = {}
    /\ cn_up = [c \in Conns |-> <<>>]
    /\ cn_idle = {}
    /\ sv_connections_closed = 0

otherThanUp ==
    <<phVars, flow_pc, recvVars, sv_message_queue, sv_messages_forwarded,
      sv_messages_dropped, sv_errors, sv_item, sv_sent, up_replies, fw_ok, fw, sv_in,
      up_sent,
      e2eVars, wireVars>>

otherThanSweep == <<otherThanUp, cn_up>>

otherThanConc == <<otherThanSweep, sweepVars>>

\* socket_handler.py:240-259 and 271-275: a connection is accepted and its
\* thread registers it in client_handlers
Accept(c) ==
    /\ cn_pc[c] = "unconnected"
    /\ cn_pc' = [cn_pc EXCEPT ![c] = "recv"]
    /\ client_handlers' = client_handlers \cup {c}
    /\ ch_writers' = ch_writers \cup {c}
    /\ UNCHANGED <<cn_inbox, cn_nsent, cn_msg, cn_load, cn_out, cn_hist,
                   connections, connection_lock, mr_writers, table_writers,
                   sv_messages_received, otherThanConc>>

\* The client of a connection writes a framed message on it
ClientSend(c) ==
    /\ cn_pc[c] \notin {"unconnected", "closed"}
    /\ cn_nsent[c] < MaxPerConn
    /\ \E message \in ConnMessages :
          cn_inbox' = [cn_inbox EXCEPT ![c] =
                          Append(@, Numbered(message, c, cn_nsent[c] + 1))]
    /\ cn_nsent' = [cn_nsent EXCEPT ![c] = @ + 1]
    /\ UNCHANGED <<cn_pc, cn_msg, cn_load, cn_out, cn_hist, client_handlers,
                   connections, connection_lock, mr_writers, ch_writers,
                   table_writers, sv_messages_received, otherThanConc>>

\* The peer answers what it received: its replies carry the transaction id
\* of the request (receiver.py:141-147)
Serving(upstream, request) ==
    [upstream EXCEPT !.replies =
        [i \in DOMAIN @ |->
            @[i] @@ ("transaction_id" :> Get(request, "transaction_id"))]]

\* The first frame the peer writes on the connection opened to it, if any
FirstReply(upstream) ==
    IF upstream.reachable /\ upstream.replies # <<>>
    THEN <<upstream.replies[1]>> ELSE <<>>

\* The thread of c is in receive_message (socket_handler.py:279) and a
\* message is there for it
CanReceive(c) == cn_pc[c] = "recv" /\ cn_inbox[c] # <<>>

\* socket_handler.py:279-285 and server_intermediate.py:165: the message is
\* received, the callback starts and reads stats['messages_received']
Receive(c) ==
    /\ CanReceive(c)
    /\ cn_msg' = [cn_msg EXCEPT ![c] = Head(cn_inbox[c])]
    /\ cn_inbox' = [cn_inbox EXCEPT ![c] = Tail(@)]
    /\ cn_load' = [cn_load EXCEPT ![c] = sv_messages_received]
    /\ cn_pc' = [cn_pc EXCEPT ![c] = "loaded"]
    /\ cn_idle' = cn_idle \ {c}
    /\ UNCHANGED <<cn_nsent, cn_out, cn_hist, client_handlers, connections,
                   connection_lock, mr_writers, ch_writers, table_writers,
                   sv_messages_received, sv_connections_closed, otherThanSweep>>

\* The thread of c has been blocked in receive_message for longer than the
\* timeout of the sweep (server_intermediate.py:329), nothing having arrived
IdleTimeout(c) ==
    /\ cn_pc[c] = "recv"
    /\ cn_inbox[c] = <<>>
    /\ c \notin cn_idle
    /\ cn_idle' = cn_idle \cup {c}
    /\ UNCHANGED <<cn_pc, cn_inbox, cn_nsent, cn_msg, cn_load, cn_out, cn_hist,
                   client_handlers, connections, connection_lock, mr_writers,
                   ch_writers, table_writers, sv_messages_received,
                   sv_connections_closed, otherThanSweep>>

\* server_intermediate.py:165-172: the incremented value is stored; the
\* callback returns None for a message it does not forward
Count(c) ==
    /\ cn_pc[c] = "loaded"
    /\ sv_messages_received' = cn_load[c] + 1
    /\ mr_writers' = mr_writers \cup {c}
    /\ IF Forwardable(cn_msg[c])
       THEN /\ cn_pc' = [cn_pc EXCEPT ![c] = "forwarding"]
            /\ UNCHANGED <<cn_msg, cn_hist>>
       ELSE /\ cn_pc' = [cn_pc EXCEPT ![c] = "recv"]
            /\ cn_msg' = [cn_msg EXCEPT ![c] = NoMessage]
            /\ cn_hist' = [cn_hist EXCEPT ![c] = Append(@, "local")]
    /\ UNCHANGED <<cn_inbox, cn_nsent, cn_load, cn_out, client_handlers,
                   connections, connection_lock, ch_writers, table_writers,
                   otherThanConc>>

\* server_intermediate.py:172-177 and socket_handler.py:286-304:
\* _forward_message returns, the callback returns its response and the loop
\* writes it back
ForwardReturn(c) ==
    /\ cn_pc[c] = "forwarding"
    /\ \E upstream \in Upstreams :
          LET peer == Serving(upstream, cn_msg[c])
              h == _relay_handle_message(SV, cn_msg[c], peer)
              response == h.response
              r == _handle_client(response)
          IN /\ cn_out' = [cn_out EXCEPT ![c] = @ \o r.frames]
             /\ cn_up' = [cn_up EXCEPT ![c] =
                             Append(@, [request |-> cn_msg[c],
                                        forwarded |-> h.forwarded,
                                        reply |-> FirstReply(peer)])]
             /\ cn_hist' = [cn_hist EXCEPT ![c] =
                               Append(@, IF response = NoMessage
                                         THEN "failed" ELSE "ok")]
             /\ cn_pc' = [cn_pc EXCEPT ![c] = IF r.open THEN "recv" ELSE "closed"]
             /\ client_handlers' = IF r.open THEN client_handlers
                                   ELSE client_handlers \ {c}
    /\ cn_msg' = [cn_msg EXCEPT ![c] = NoMessage]
    /\ UNCHANGED <<cn_inbox, cn_nsent, cn_load, connections, connection_lock,
                   mr_writers, ch_writers, table_writers, sv_messages_received,
                   sweepVars, otherThanUp>>

\* socket_handler.py:280-281 and 309-314: the client has closed, the loop
\* ends and the thread removes its connection from client_handlers
ClientClose(c) ==
    /\ cn_pc[c] = "recv"
    /\ cn_inbox[c] = <<>>
    /\ cn_pc' = [cn_pc EXCEPT ![c] = "closed"]
    /\ client_handlers' = client_handlers \ {c}
    /\ ch_writers' = ch_writers \cup {c}
    /\ cn_idle' = cn_idle \ {c}
    /\ UNCHANGED <<cn_inbox, cn_nsent, cn_msg, cn_load, cn_out, cn_hist,
                   connections, connection_lock, mr_writers, table_writers,
                   sv_messages_received, sv_connections_closed, otherThanSweep>>

\* server_intermediate.py:331: _cleanup_worker takes connection_lock
CleanupLock ==
    /\ connection_lock = "free"
    /\ connection_lock' = "cleanup"
    /\ UNCHANGED <<cn_pc, cn_inbox, cn_nsent, cn_msg, cn_load, cn_out, cn_hist,
                   client_handlers, connections, mr_writers, ch_writers,
                   table_writers, sv_messages_received, otherThanConc>>

\* server_intermediate.py:332-342 and 313-320: it closes and deletes the
\* expired connections, any subset of the table as far as the clock goes,
\* and releases the lock
CleanupSweep ==
    /\ connection_lock = "cleanup"
    /\ \E expired \in SUBSET DOMAIN connections :
          /\ connections' = [k \in DOMAIN connections \ expired |-> connections[k]]
          /\ sv_connections_closed' = sv_connections_closed + Cardinality(expired)
          /\ table_writers' =
                IF expired = {} THEN table_writers
                ELSE table_writers \cup {<<"cleanup", connection_lock>>}
    /\ connection_lock' = "free"
    /\ UNCHANGED <<cn_pc, cn_inbox, cn_nsent, cn_msg, cn_load, cn_out, cn_hist,
                   client_handlers, mr_writers, ch_writers, cn_idle,
                   sv_messages_received, otherThanSweep>>

(***************************************************************************)
(* The whole path of Sender.send_file_complete_flow: the Sender, server1,  *)
(* server2 and the Receiver, all running, the network delivering every     *)
(* frame unchanged. The Sender's messages are numbered in the order it     *)
(* sends them: 1 HELLO, 2 GET_PUBLIC_KEY, 3 SESSION_KEY, 4 FILE_DATA. A    *)
(* relay opens a new upstream connection for each message it forwards      *)
(* (server_intermediate.py:239-242), and the peer serves each connection   *)
(* in a thread of its own, so every message has its own thread at server2  *)
(* and at the Receiver; at server1 the messages of one Sender connection   *)
(* share a thread. Time is counted in seconds; a step that a thread can    *)
(* take is taken before the clock advances, so that time passes only       *)
(* while every thread is blocked in a receive.                             *)
(***************************************************************************)
FlowMessages == 1 .. 4

\* sender.py:123-132
hello_message ==
    create_message("HELLO", [message |-> "Hello!", sender_id |-> sender_id],
                   sender_id, "receiver", current_transaction_id)

\* A faulty handshake that does not compare the transaction id of READY
\* with its own: C27 must tell it from the real one.
perform_handshake_any_id(ready_message, current) ==
    /\ ready_message # NoMessage
    /\ Get(ready_message, "type") = "READY"
    /\ Has(ready_message, "data")
    /\ Get(ready_message.data, "message") = "Ready!"

\* sender.py:140-156: what perform_handshake returns for the frame received,
\* NoMessage when the receive timed out
perform_handshake(ready_message, current) ==
    /\ ready_message # NoMessage
    /\ Get(ready_message, "type") = "READY"
    /\ Has(ready_message, "data")
    /\ Get(ready_message.data, "message") = "Ready!"
    /\ Get(ready_message, "transaction_id") = current

\* A faulty wait that takes any message for an acknowledgment: C28 must
\* tell it from the real one.
wait_for_acknowledgment_any(ack_message) ==
    IF ack_message = NoMessage
        THEN [success |-> FALSE,
              message |-> <<"Khong nhan duoc phan hoi tu Receiver">>]
    ELSE [success |-> TRUE,
          message |-> <<"File da duoc nhan va xac minh thanh cong">>]

\* sender.py:357-383: the pair (success, message) that wait_for_acknowledgment
\* returns for what its one receive returned; the message is kept as the
\* parts the code joins into one string
wait_for_acknowledgment(ack_message) ==
    IF ack_message = NoMessage
        THEN [success |-> FALSE,
              message |-> <<"Khong nhan duoc phan hoi tu Receiver">>]
    ELSE IF Get(ack_message, "type") = "ACK"
        THEN [success |-> TRUE,
              message |-> <<"File da duoc nhan va xac minh thanh cong">>]
    ELSE IF Get(ack_message, "type") = "NACK"
        THEN [success |-> FALSE,
              message |-> <<"File bi tu choi",
                            IF Has(ack_message, "data")
                               /\ Has(ack_message.data, "error")
                            THEN ack_message.data.error ELSE "Unknown error">>]
    ELSE [success |-> FALSE,
          message |-> <<"Message khong hop le", Get(ack_message, "type")>>]

\* The upstream peer as a forward sees it: it is up, and has answered with
\* `reply` or not at all by the time the forward returns
Upstream(answered, reply) ==
    [reachable |-> TRUE, replies |-> IF answered THEN <<reply>> ELSE <<>>]

E2EInit ==
    /\ e_pc = "start"
    /\ e_at = [n \in FlowMessages |-> "unsent"]
    /\ e_msg = [n \in FlowMessages |-> NoMessage]
    /\ e_reply = [n \in FlowMessages |-> NoMessage]
    /\ e_path = [n \in FlowMessages |-> <<>>]
    /\ e_s1 = [n \in FlowMessages |-> "none"]
    /\ e_s2 = [n \in FlowMessages |-> "none"]
    /\ e_r = [n \in FlowMessages |-> "none"]
    /\ e_t1 = [n \in FlowMessages |-> 0]
    /\ e_t2 = [n \in FlowMessages |-> 0]
    /\ e_cn = [n \in FlowMessages |-> "none"]
    /\ e_in = <<>>
    /\ e_conn = "none"
    /\ e_threads = {}
    /\ e_wait = 0
    /\ e_ret = FALSE
    /\ e_sv2_received = 0

outsideE2E ==
    <<phVars, flow_pc, s_pc, sv_message_queue, sv_messages_forwarded,
      sv_messages_dropped, sv_errors, sv_item, sv_sent, up_replies, fw_ok, fw, sv_in,
      up_sent,
      concVars, wireVars>>

\* ClientSocketHandler.send: message n is written on the Sender's connection
Send(n, message, conn) ==
    /\ e_at' = [e_at EXCEPT ![n] = "c1"]
    /\ e_msg' = [e_msg EXCEPT ![n] = message]
    /\ e_cn' = [e_cn EXCEPT ![n] = conn]
    /\ s_sent' = s_sent \cup {message}

\* ClientSocketHandler.receive on the Sender's connection returns the first
\* frame, or None when the socket timeout has passed with no frame
SenderCanReceive == e_in # <<>> \/ e_wait = SenderTimeout

Received == IF e_in # <<>> THEN Head(e_in).frame ELSE NoMessage

TakeFrame ==
    /\ e_in' = IF e_in # <<>> THEN Tail(e_in) ELSE e_in
    /\ e_path' = IF e_in # <<>>
                 THEN [e_path EXCEPT ![Head(e_in).n] = Append(@, "sender")]
                 ELSE e_path


\* sender.py:406-409 and 107-136: connect_to_server, then perform_handshake
\* sends HELLO and starts to wait for READY
ConnectAndSendHello ==
    /\ e_pc = "start"
    /\ e_conn' = "A"
    /\ e_threads' = e_threads \cup {"A"}
    /\ Send(1, hello_message, "A")
    /\ e_pc' = "hello_wait"
    /\ e_wait' = 0
    /\ UNCHANGED <<e_reply, e_path, e_s1, e_s2, e_r, e_t1, e_t2, e_in,
                   e_ret, e_sv2_received, sv_messages_received,
                   recvOnlyVars, s_receiver_public_key, s_session_key,
                   outsideE2E>>

\* sender.py:138-158: perform_handshake receives, and the flow returns False
\* when it fails (sender.py:412-414)
ReceiveReady ==
    /\ e_pc = "hello_wait"
    /\ SenderCanReceive
    /\ TakeFrame
    /\ e_pc' = IF perform_handshake(Received, current_transaction_id)
                THEN "handshaken" ELSE "returned"
    /\ UNCHANGED <<e_at, e_msg, e_reply, e_s1, e_s2, e_r, e_t1, e_t2, e_cn,
                   e_conn, e_threads, e_wait, e_ret, e_sv2_received,
                   sv_messages_received, recvOnlyVars,
                   s_receiver_public_key, s_session_key, s_sent,
                   outsideE2E>>

\* sender.py:161-180: request_public_key connects again, which replaces the
\* Sender's socket by a new connection, and sends GET_PUBLIC_KEY
RequestPublicKey ==
    /\ e_pc = "handshaken"
    /\ e_conn' = "B"
    /\ e_threads' = e_threads \cup {"B"}
    /\ e_in' = <<>>
    /\ Send(2, get_key_message, "B")
    /\ e_pc' = "key_wait"
    /\ e_wait' = 0
    /\ UNCHANGED <<e_reply, e_path, e_s1, e_s2, e_r, e_t1, e_t2, e_ret,
                   e_sv2_received, sv_messages_received, recvOnlyVars,
                   s_receiver_public_key, s_session_key, outsideE2E>>

\* sender.py:182-195 and 417-419
ReceivePublicKey ==
    /\ e_pc = "key_wait"
    /\ SenderCanReceive
    /\ TakeFrame
    /\ LET k == request_public_key(Received, current_transaction_id)
       IN /\ s_receiver_public_key' = k
          /\ e_pc' = IF k = NoKey THEN "returned" ELSE "have_key"
    /\ UNCHANGED <<e_at, e_msg, e_reply, e_s1, e_s2, e_r, e_t1, e_t2, e_cn,
                   e_conn, e_threads, e_wait, e_ret, e_sv2_received,
                   sv_messages_received, recvOnlyVars, s_session_key,
                   s_sent, outsideE2E>>

\* sender.py:197-236: exchange_keys sends SESSION_KEY and waits for nothing
ExchangeKeys ==
    /\ e_pc = "have_key"
    /\ s_session_key' = "ks"
    /\ Send(3, session_key_message(sender_id, "ks", s_receiver_public_key,
                                   current_transaction_id), e_conn)
    /\ e_pc' = "keyed"
    /\ UNCHANGED <<e_reply, e_path, e_s1, e_s2, e_r, e_t1, e_t2, e_in,
                   e_conn, e_threads, e_wait, e_ret, e_sv2_received,
                   sv_messages_received, recvOnlyVars,
                   s_receiver_public_key, outsideE2E>>

\* sender.py:238-341, then wait_for_acknowledgment sets the socket timeout
\* (sender.py:356-358)
EncryptAndSendFile ==
    /\ e_pc = "keyed"
    /\ Send(4, file_message("S", sender_id, FileContent, "hello.txt",
                            s_session_key, SenderIv, current_transaction_id),
            e_conn)
    /\ e_pc' = "ack_wait"
    /\ e_wait' = 0
    /\ UNCHANGED <<e_reply, e_path, e_s1, e_s2, e_r, e_t1, e_t2, e_in,
                   e_conn, e_threads, e_ret, e_sv2_received,
                   sv_messages_received, recvOnlyVars,
                   s_receiver_public_key, s_session_key, outsideE2E>>

\* sender.py:360-381 and 432-443: the flow returns what
\* wait_for_acknowledgment found
WaitForAcknowledgment ==
    /\ e_pc = "ack_wait"
    /\ SenderCanReceive
    /\ TakeFrame
    /\ e_ret' = wait_for_acknowledgment(Received).success
    /\ e_pc' = "returned"
    /\ UNCHANGED <<e_at, e_msg, e_reply, e_s1, e_s2, e_r, e_t1, e_t2, e_cn,
                   e_conn, e_threads, e_wait, e_sv2_received,
                   sv_messages_received, recvOnlyVars,
                   s_receiver_public_key, s_session_key, s_sent,
                   outsideE2E>>

\* The thread of connection conn at server1 is inside _handle_message
S1Busy(conn) ==
    \E m \in FlowMessages : e_cn[m] = conn /\ e_s1[m] = "waiting"

\* socket_handler.py:278-285: message n is the next frame of its connection
\* and the connection's thread is in receive_message
S1CanHandle(n) ==
    /\ e_at[n] = "c1"
    /\ e_cn[n] \in e_threads
    /\ ~S1Busy(e_cn[n])
    /\ \A m \in FlowMessages : (m < n /\ e_cn[m] = e_cn[n]) => e_at[m] # "c1"


\* server_intermediate.py:163-172 and 236-261 at server1: the message is
\* counted and, having another destination, sent on a new connection to
\* server2
S1Handle(n) ==
    /\ S1CanHandle(n)
    /\ sv_messages_received' = sv_messages_received + 1
    /\ IF Forwardable(e_msg[n])
       THEN /\ e_s1' = [e_s1 EXCEPT ![n] = "waiting"]
            /\ e_at' = [e_at EXCEPT ![n] = "c2"]
       ELSE /\ e_s1' = [e_s1 EXCEPT ![n] = "returned"]
            /\ e_at' = [e_at EXCEPT ![n] = "kept"]
    /\ e_t1' = [e_t1 EXCEPT ![n] = 0]
    /\ UNCHANGED <<e_pc, e_msg, e_reply, e_path, e_s2, e_r, e_t2, e_cn,
                   e_in, e_conn, e_threads, e_wait, e_ret, e_sv2_received,
                   recvOnlyVars, s_receiver_public_key, s_session_key,
                   s_sent, outsideE2E>>

\* The same at server2, in the thread of the connection that server1 opened
\* for message n; the message goes on a new connection to the Receiver
S2Handle(n) ==
    /\ e_at[n] = "c2"
    /\ e_sv2_received' = e_sv2_received + 1
    /\ IF Forwardable(e_msg[n])
       THEN /\ e_s2' = [e_s2 EXCEPT ![n] = "waiting"]
            /\ e_at' = [e_at EXCEPT ![n] = "c3"]
       ELSE /\ e_s2' = [e_s2 EXCEPT ![n] = "returned"]
            /\ e_at' = [e_at EXCEPT ![n] = "kept"]
    /\ e_t2' = [e_t2 EXCEPT ![n] = 0]
    /\ UNCHANGED <<e_pc, e_msg, e_reply, e_path, e_s1, e_r, e_t1, e_cn,
                   e_in, e_conn, e_threads, e_wait, e_ret,
                   sv_messages_received, recvOnlyVars,
                   s_receiver_public_key, s_session_key, s_sent,
                   outsideE2E>>

\* receiver.py:116-270 and socket_handler.py:284-304: the Receiver's thread
\* for the connection handles the message and writes the reply back, if
\* there is one; on_new_file is absent or a callable that returns
ReceiverHandle(n) ==
    /\ e_at[n] = "c3"
    /\ \E on_new_file \in {"absent", "returns"} :
          LET r == _handle_message(RC, e_msg[n], on_new_file)
          IN /\ Handled(e_msg[n], r)
             /\ e_reply' = [e_reply EXCEPT ![n] = r.reply]
             /\ e_at' = [e_at EXCEPT ![n] =
                            IF r.reply = NoMessage THEN "quiet" ELSE "r2"]
             /\ e_path' = [e_path EXCEPT ![n] =
                              IF r.reply = NoMessage THEN @ ELSE <<"receiver">>]
    /\ e_r' = [e_r EXCEPT ![n] = "open"]
    /\ UNCHANGED <<e_pc, e_msg, e_s1, e_s2, e_t1, e_t2, e_cn, e_in, e_conn,
                   e_threads, e_wait, e_ret, e_sv2_received,
                   sv_messages_received, s_receiver_public_key,
                   s_session_key, s_sent, outsideE2E>>

\* The forward of message n at server2 can return: the reply is there, or
\* the upstream socket's timeout has passed
S2CanReturn(n) ==
    /\ e_s2[n] = "waiting"
    /\ e_at[n] = "r2" \/ e_t2[n] = ForwardTimeout

S1CanReturn(n) ==
    /\ e_s1[n] = "waiting"
    /\ e_at[n] = "r1" \/ e_t1[n] = ForwardTimeout


\* server_intermediate.py:266-290 and 173-178, socket_handler.py:286-304 at
\* server2: _forward_message returns the reply or None, and the thread
\* writes the reply back to server1
S2Return(n) ==
    /\ S2CanReturn(n)
    /\ LET response == _forward_message(e_msg[n],
                                        Upstream(e_at[n] = "r2", e_reply[n]))
           frames == _handle_client(response).frames
       IN /\ e_at' = [e_at EXCEPT ![n] = IF frames # <<>> THEN "r1" ELSE @]
          /\ e_path' = [e_path EXCEPT ![n] =
                           IF frames # <<>> THEN Append(@, "server2") ELSE @]
    /\ e_s2' = [e_s2 EXCEPT ![n] = "returned"]
    /\ UNCHANGED <<e_pc, e_msg, e_reply, e_s1, e_r, e_t1, e_t2, e_cn, e_in,
                   e_conn, e_threads, e_wait, e_ret, e_sv2_received,
                   sv_messages_received, recvOnlyVars,
                   s_receiver_public_key, s_session_key, s_sent,
                   outsideE2E>>

\* The same at server1, which writes the reply on the Sender's connection
S1Return(n) ==
    /\ S1CanReturn(n)
    /\ LET response == _forward_message(e_msg[n],
                                        Upstream(e_at[n] = "r1", e_reply[n]))
           frames == _handle_client(response).frames
       IN /\ e_at' = [e_at EXCEPT ![n] = IF frames # <<>> THEN "r0" ELSE @]
          /\ e_path' = [e_path EXCEPT ![n] =
                           IF frames # <<>> THEN Append(@, "server1") ELSE @]
          /\ e_in' = IF e_cn[n] = e_conn
                     THEN e_in \o [i \in DOMAIN frames |->
                                      [n |-> n, frame |-> frames[i]]]
                     ELSE e_in
    /\ e_s1' = [e_s1 EXCEPT ![n] = "returned"]
    /\ UNCHANGED <<e_pc, e_msg, e_reply, e_s2, e_r, e_t1, e_t2, e_cn,
                   e_conn, e_threads, e_wait, e_ret, e_sv2_received,
                   sv_messages_received, recvOnlyVars,
                   s_receiver_public_key, s_session_key, s_sent,
                   outsideE2E>>

\* socket_handler.py:279-281 and 309-314 at server2: server1 has closed the
\* connection of message n (server_intermediate.py:246-286 closes it on
\* every path), receive_message returns None and the thread ends
S2ThreadExit(n) ==
    /\ e_s2[n] = "returned"
    /\ e_s1[n] = "returned"
    /\ e_s2' = [e_s2 EXCEPT ![n] = "exited"]
    /\ UNCHANGED <<e_pc, e_at, e_msg, e_reply, e_path, e_s1, e_r, e_t1,
                   e_t2, e_cn, e_in, e_conn, e_threads, e_wait, e_ret,
                   e_sv2_received, sv_messages_received, recvOnlyVars,
                   s_receiver_public_key, s_session_key, s_sent,
                   outsideE2E>>

\* The same at the Receiver, once server2 has closed its connection
ReceiverThreadExit(n) ==
    /\ e_r[n] = "open"
    /\ e_s2[n] \in {"returned", "exited"}
    /\ e_r' = [e_r EXCEPT ![n] = "exited"]
    /\ UNCHANGED <<e_pc, e_at, e_msg, e_reply, e_path, e_s1, e_s2, e_t1,
                   e_t2, e_cn, e_in, e_conn, e_threads, e_wait, e_ret,
                   e_sv2_received, sv_messages_received, recvOnlyVars,
                   s_receiver_public_key, s_session_key, s_sent,
                   outsideE2E>>

\* The same at server1 for the Sender's first connection, which the Sender
\* dropped when it connected again (socket_handler.py:166)
S1ThreadExit ==
    /\ "A" \in e_threads
    /\ e_conn = "B"
    /\ ~S1Busy("A")
    /\ e_threads' = e_threads \ {"A"}
    /\ UNCHANGED <<e_pc, e_at, e_msg, e_reply, e_path, e_s1, e_s2, e_r,
                   e_t1, e_t2, e_cn, e_in, e_conn, e_wait, e_ret,
                   e_sv2_received, sv_messages_received, recvOnlyVars,
                   s_receiver_public_key, s_session_key, s_sent,
                   outsideE2E>>

\* Some thread can take a step without waiting for the clock
Busy ==
    \/ e_pc \in {"start", "handshaken", "have_key", "keyed"}
    \/ e_pc \in {"hello_wait", "key_wait", "ack_wait"} /\ SenderCanReceive
    \/ \E n \in FlowMessages :
          \/ S1CanHandle(n)
          \/ e_at[n] \in {"c2", "c3"}
          \/ S2CanReturn(n)
          \/ S1CanReturn(n)

Waiting ==
    \/ e_pc \in {"hello_wait", "key_wait", "ack_wait"}
    \/ \E n \in FlowMessages : e_s1[n] = "waiting" \/ e_s2[n] = "waiting"


\* One second passes in every blocked receive
Tick ==
    /\ ~Busy
    /\ Waiting
    /\ e_wait' = IF e_pc \in {"hello_wait", "key_wait", "ack_wait"}
                 THEN e_wait + 1 ELSE e_wait
    /\ e_t1' = [n \in FlowMessages |->
                  IF e_s1[n] = "waiting" THEN e_t1[n] + 1 ELSE e_t1[n]]
    /\ e_t2' = [n \in FlowMessages |->
                  IF e_s2[n] = "waiting" THEN e_t2[n] + 1 ELSE e_t2[n]]
    /\ UNCHANGED <<e_pc, e_at, e_msg, e_reply, e_path, e_s1, e_s2, e_r,
                   e_cn, e_in, e_conn, e_threads, e_ret, e_sv2_received,
                   sv_messages_received, recvOnlyVars,
                   s_receiver_public_key, s_session_key, s_sent,
                   outsideE2E>>
(***************************************************************************)
(* Framing (socket_handler.py:49-143). A byte is a number in 0 .. 255, a   *)
(* byte string a sequence of bytes. json.dumps followed by encode is a     *)
(* table from the messages used here to short byte strings that stand for  *)
(* their JSON texts; json.loads is its inverse and raises on any other     *)
(* byte string.                                                            *)
(***************************************************************************)
BadSigFile ==
    [file_message("S", sender_id, FileContent, "hello.txt", "ks", SenderIv,
                  current_transaction_id) EXCEPT !.data.sig = b64encode(Junk)]

ReadyReply ==
    create_message("READY", [message |-> "Ready!", receiver_id |-> receiver_id],
                   receiver_id, sender_id, current_transaction_id)

BadSigNack ==
    create_message("NACK", [error |-> "File khong hop le: Sai chu ky so!"],
                   receiver_id, sender_id, current_transaction_id)

JsonTable ==
    { [message |-> hello_message, text |-> <<123, 1, 125>>],
      [message |-> Drop(hello_message, "source"), text |-> <<123, 2, 2, 125>>],
      [message |-> BadSigFile, text |-> <<123, 3, 3, 3, 125>>],
      [message |-> ReadyReply, text |-> <<123, 4, 125>>],
      [message |-> BadSigNack, text |-> <<123, 5, 5, 125>>] }

FrameMessages == { e.message : e \in JsonTable }

\* json.dumps(message, ensure_ascii=False).encode('utf-8')
dumps(message) == (CHOOSE e \in JsonTable : e.message = message).text

\* json.loads(message_bytes.decode('utf-8')): [ok, val], ok = FALSE a raise
loads(message_bytes) ==
    IF \E e \in JsonTable : e.text = message_bytes
    THEN [ok |-> TRUE,
          val |-> (CHOOSE e \in JsonTable : e.text = message_bytes).message]
    ELSE [ok |-> FALSE, val |-> NoMessage]

\* A faulty to_bytes that writes the length little-endian: C24 must tell it
\* from the real one.
to_bytes_little(n) ==
    <<n % 256, (n \div 256) % 256, (n \div 65536) % 256, (n \div 16777216) % 256>>

\* message_length.to_bytes(4, byteorder='big')
to_bytes(n) ==
    <<(n \div 16777216) % 256, (n \div 65536) % 256, (n \div 256) % 256, n % 256>>

\* int.from_bytes(length_bytes, byteorder='big'), for any number of bytes
RECURSIVE from_bytes(_)
from_bytes(b) ==
    IF b = <<>> THEN 0
    ELSE from_bytes(SubSeq(b, 1, Len(b) - 1)) * 256 + b[Len(b)]

Min2(a, b) == IF a < b THEN a ELSE b

Take(s, k) == SubSeq(s, 1, k)

DropFirst(s, k) == SubSeq(s, k + 1, Len(s))

\* socket_handler.py:68-76: the loop over sock.send. `accepts` lists what the
\* socket does at each call: a positive number is the most bytes it takes,
\* 0 is send returning 0, -1 is send raising; when the list is used up the
\* socket takes everything. Result: the bytes written and whether the loop
\* ended without raising.
RECURSIVE SendBody(_, _, _)
SendBody(message_bytes, total_sent, accepts) ==
    IF total_sent >= Len(message_bytes)
        THEN [written |-> Take(message_bytes, total_sent), ok |-> TRUE]
    ELSE IF accepts = <<>>
        THEN [written |-> message_bytes, ok |-> TRUE]
    ELSE IF Head(accepts) <= 0
        THEN [written |-> Take(message_bytes, total_sent), ok |-> FALSE]
    ELSE SendBody(message_bytes,
                  total_sent + Min2(Head(accepts),
                                    Len(message_bytes) - total_sent),
                  Tail(accepts))

\* socket_handler.py:49-83. prefix_accept is what the socket does at
\* sock.send(length_bytes): the number of bytes it takes, 1 to 4, or -1 when
\* it raises. Result: the bytes written to the socket and the value returned.
send_message(message, prefix_accept, accepts) ==
    LET message_bytes == dumps(message)
        length_bytes == to_bytes(Len(message_bytes))
        body == SendBody(message_bytes, 0, accepts)
    IN IF prefix_accept < 0 THEN [written |-> <<>>, ret |-> FALSE]
       ELSE [written |-> Take(length_bytes, prefix_accept) \o body.written,
             ret |-> body.ok]

\* A faulty _receive_exact that calls recv once and returns what came: C22
\* must tell it from the real one.
_receive_exact_once(stream, closed, length, reads, data) ==
    LET offered == IF reads = <<>> THEN length ELSE Head(reads)
        k == Min2(Min2(offered, length), Len(stream))
    IN IF length = 0
           THEN [ok |-> TRUE, data |-> <<>>, stream |-> stream, reads |-> reads,
                 timeout |-> FALSE, calls |-> 0]
       ELSE IF offered = 0 \/ stream = <<>>
           THEN [ok |-> FALSE, data |-> <<>>, stream |-> stream,
                 reads |-> IF reads = <<>> THEN reads ELSE Tail(reads),
                 timeout |-> ~(stream = <<>> /\ closed), calls |-> 1]
       ELSE [ok |-> TRUE, data |-> Take(stream, k),
             stream |-> DropFirst(stream, k),
             reads |-> IF reads = <<>> THEN reads ELSE Tail(reads),
             timeout |-> FALSE, calls |-> 1]

\* socket_handler.py:120-143. stream holds the bytes that have arrived and
\* are unread, closed says that the peer has closed behind them, data is
\* what the loop has assembled. `reads` lists what each recv call gets: a
\* positive number is the most bytes it returns, 0 is socket.timeout; when
\* the list is used up recv returns all it is asked for. With nothing to
\* read, recv returns b'' if the peer has closed and times out otherwise.
\* Result: ok = FALSE is the return of None; calls counts the recv calls
\* that returned bytes.
RECURSIVE _receive_exact(_, _, _, _, _)
_receive_exact(stream, closed, length, reads, data) ==
    IF Len(data) >= length
        THEN [ok |-> TRUE, data |-> data, stream |-> stream, reads |-> reads,
              timeout |-> FALSE, calls |-> 0]
    ELSE
      LET offered == IF reads = <<>> THEN length - Len(data) ELSE Head(reads)
          rest == IF reads = <<>> THEN reads ELSE Tail(reads)
          k == Min2(Min2(offered, length - Len(data)), Len(stream))
      IN IF offered = 0 \/ stream = <<>>
             THEN [ok |-> FALSE, data |-> data, stream |-> stream,
                   reads |-> rest, timeout |-> ~(stream = <<>> /\ closed),
                   calls |-> 0]
         ELSE LET r == _receive_exact(DropFirst(stream, k), closed, length,
                                      rest, data \o Take(stream, k))
              IN [r EXCEPT !.calls = @ + 1]

\* socket_handler.py:85-118. Result: ret is the message returned, NoMessage
\* for None; stream is what stays unread; exacts lists, for each
\* _receive_exact call, the length asked for and what it returned; timeout
\* says that a recv timed out.
receive_message(stream, closed, reads) ==
    LET p == _receive_exact(stream, closed, 4, reads, <<>>)
        pcall == [length |-> 4, ok |-> p.ok, data |-> p.data, calls |-> p.calls]
        failed(s, exacts, timeout) ==
            [ret |-> NoMessage, stream |-> s, exacts |-> exacts,
             timeout |-> timeout]
    IN IF ~p.ok \/ p.data = <<>> THEN failed(p.stream, <<pcall>>, p.timeout)
       ELSE
         LET message_length == from_bytes(p.data)
             b == _receive_exact(p.stream, closed, message_length, p.reads, <<>>)
             bcall == [length |-> message_length, ok |-> b.ok, data |-> b.data,
                       calls |-> b.calls]
             message == loads(b.data)
         IN IF ~b.ok \/ b.data = <<>>
                THEN failed(b.stream, <<pcall, bcall>>, b.timeout)
            ELSE IF ~message.ok THEN failed(b.stream, <<pcall, bcall>>, FALSE)
            ELSE [ret |-> message.val, stream |-> b.stream,
                  exacts |-> <<pcall, bcall>>, timeout |-> FALSE]

(***************************************************************************)
(* One connection of a client to the Receiver's listener, at the level of  *)
(* bytes: the client writes frames with send_message, the listener's       *)
(* thread (_handle_client) reads them with receive_message on its blocking *)
(* socket, hands each message to Receiver._handle_message and writes the   *)
(* reply back with sendall; the client reads replies with receive_message  *)
(* on a socket that has a timeout.                                         *)
(***************************************************************************)
ClientMessages == {hello_message, Drop(hello_message, "source"), BadSigFile}

PrefixAccepts == {-1, 2, 4}

WriteSchedules == {<<>>, <<1, 0>>}

\* What the recv calls of one receive_message on a blocking socket get
BlockingReads == {<<>>, <<3, 1>>}

\* The same on a socket with a timeout
TimedReads == BlockingReads \cup {<<1, 0>>}

\* Bytes of no frame: a length prefix of 2 followed by two bytes that are
\* not a JSON text
RawBytes == <<0, 0, 0, 2, 9, 9>>

\* The whole frame of a message: prefix, then body
Frame(message) == to_bytes(Len(dumps(message))) \o dumps(message)

RECURSIVE Frames(_)
Frames(messages) ==
    IF messages = <<>> THEN <<>>
    ELSE Frame(Head(messages)) \o Frames(Tail(messages))

\* A faulty loop that also leaves when the callback returns no response:
\* C25 must tell it from the real one.
_handle_client_leave(message, response) ==
    IF message = NoMessage \/ response = NoMessage
    THEN [frames |-> <<>>, open |-> FALSE]
    ELSE _handle_client(response)

\* socket_handler.py:277-312: one turn of the loop of _handle_client for the
\* value receive_message returned and, for a message, the callback's
\* response: with None it breaks, and the finally clause closes the socket
\* and deletes the client_handlers entry
_handle_client_turn(message, response) ==
    IF message = NoMessage THEN [frames |-> <<>>, open |-> FALSE]
    ELSE _handle_client(response)

FrameInit ==
    /\ f_wire = <<>>
    /\ f_closed = FALSE
    /\ f_sent = <<>>
    /\ f_open = TRUE
    /\ f_got = <<>>
    /\ f_back = <<>>
    /\ f_cgot = <<>>

outsideFrame ==
    <<phVars, flow_pc, senderVars, sv_message_queue, sv_messages_received,
      sv_messages_forwarded, sv_messages_dropped, sv_errors, sv_item, sv_sent,
      up_replies, fw_ok, fw, sv_in,
      up_sent, concVars, e2eVars, runVars, signVars, stopVars>>

\* socket_handler.py:184-189 and 49-83: the client sends a message
ClientSendMessage ==
    /\ ~f_closed
    /\ Len(f_sent) < MaxFrames
    /\ \E message \in ClientMessages, prefix_accept \in PrefixAccepts,
          accepts \in WriteSchedules :
          LET s == send_message(message, prefix_accept, accepts)
          IN /\ f_wire' = f_wire \o s.written
             /\ f_sent' = Append(f_sent, [message |-> message, ret |-> s.ret,
                                          written |-> s.written])
    /\ UNCHANGED <<f_closed, f_open, f_got, f_back, f_cgot, recvOnlyVars,
                   outsideFrame>>

\* A peer that does not use send_message writes bytes of no frame
ClientWriteRaw ==
    /\ ~f_closed
    /\ Len(f_sent) < MaxFrames
    /\ f_wire' = f_wire \o RawBytes
    /\ f_sent' = Append(f_sent, [message |-> NoMessage, ret |-> FALSE,
                                 written |-> RawBytes])
    /\ UNCHANGED <<f_closed, f_open, f_got, f_back, f_cgot, recvOnlyVars,
                   outsideFrame>>

\* socket_handler.py:177-182: the client closes its socket
ClientDisconnect ==
    /\ ~f_closed
    /\ f_closed' = TRUE
    /\ UNCHANGED <<f_wire, f_sent, f_open, f_got, f_back, f_cgot, recvOnlyVars,
                   outsideFrame>>

\* socket_handler.py:277-312: one turn of the listener's thread. Its socket
\* is blocking, so a recv never times out: the turn waits until the bytes it
\* asks for have arrived or the client has closed. The Receiver has no
\* on_new_file hook here.
ListenerTurn ==
    /\ f_open
    /\ \E reads \in BlockingReads :
          LET rx == receive_message(f_wire, f_closed, reads)
              r == _handle_message(RC, rx.ret, "absent")
              t == _handle_client_turn(rx.ret,
                                       IF rx.ret = NoMessage THEN NoMessage
                                       ELSE r.reply)
          IN /\ ~rx.timeout
             /\ f_wire' = rx.stream
             /\ f_got' = Append(f_got, [ret |-> rx.ret, exacts |-> rx.exacts,
                                        timeout |-> rx.timeout])
             /\ f_open' = t.open
             /\ f_back' = f_back \o Frames(t.frames)
             /\ IF rx.ret = NoMessage THEN UNCHANGED recvOnlyVars
                ELSE Handled(rx.ret, r)
    /\ UNCHANGED <<f_closed, f_sent, f_cgot, outsideFrame>>

\* socket_handler.py:191-196 and 85-143: the client calls receive; its socket
\* has the timeout of create_socket
ClientReceive ==
    /\ ~f_closed
    /\ Len(f_cgot) < MaxReads
    /\ \E reads \in TimedReads :
          LET rx == receive_message(f_back, ~f_open, reads)
          IN /\ f_back' = rx.stream
             /\ f_cgot' = Append(f_cgot, [ret |-> rx.ret, exacts |-> rx.exacts,
                                          timeout |-> rx.timeout])
    /\ UNCHANGED <<f_wire, f_closed, f_sent, f_open, f_got, recvOnlyVars,
                   outsideFrame>>

(***************************************************************************)
(* One call of Sender.send_file_complete_flow on a fresh Sender, against a *)
(* network that may fail any send and answer any receive with any message  *)
(* or with none.                                                           *)
(***************************************************************************)
FlowSteps ==
    <<"perform_handshake", "request_public_key", "exchange_keys",
      "encrypt_and_send_file", "wait_for_acknowledgment">>

StepAfter(step) ==
    IF step = "wait_for_acknowledgment" THEN "returned"
    ELSE FlowSteps[(CHOOSE i \in DOMAIN FlowSteps : FlowSteps[i] = step) + 1]

\* A faulty flow that calls a failed step again: C26 must tell it from the
\* real one.
send_file_complete_flow_retry(step, ok) ==
    IF ok THEN StepAfter(step) ELSE step

\* sender.py:410-440: where send_file_complete_flow goes when `step` has
\* returned ok: to the next step, and out of the function when the step
\* failed or was the last
send_file_complete_flow(step, ok) ==
    IF ok THEN StepAfter(step) ELSE "returned"

\* sender.py:287-290: the transaction id of FILE_DATA and of its metadata for
\* the transaction_id argument and self.current_transaction_id
file_transaction_id(transaction_id, current) ==
    IF transaction_id # None THEN transaction_id
    ELSE IF current # None THEN current
    ELSE current_transaction_id

TransactionArgs == {None, "tx_1000_demo", "tx_2000_demo"}

AckMessage ==
    create_message("ACK",
                   [message |-> "File received and verified successfully!"],
                   receiver_id, sender_id, current_transaction_id)

PublicKeyReply == _handle_message(RC, get_key_message, "absent").reply

\* What a receive of the Sender may return: None, or any of these messages
Incoming ==
    { NoMessage, ReadyReply,
      [ReadyReply EXCEPT !.transaction_id = "tx_2000_demo"],
      [ReadyReply EXCEPT !.data.message = "Hello!"], Drop(ReadyReply, "data"),
      Drop(ReadyReply, "transaction_id"),
      PublicKeyReply, [PublicKeyReply EXCEPT !.transaction_id = "tx_2000_demo"],
      AckMessage, [AckMessage EXCEPT !.transaction_id = "tx_2000_demo"],
      BadSigNack, Drop(BadSigNack, "data"), hello_message }

\* sender.py:122: f"tx_{int(time.time())}_{self.sender_id}" at the n-th call
\* on the Sender; the calls are made in different seconds
TimeIds == <<current_transaction_id, "tx_1001_demo", "tx_1002_demo",
             "tx_1003_demo">>

\* crypto_handler.py:79-91: generate_session_key at the n-th call: fresh
\* random bytes each time
GeneratedKeys == <<"ks", "kt", "ku", "kv">>

\* The number of the call of send_file_complete_flow that is running
Attempt == Len(q_prev) + 1

\* What is kept of a call that has returned: the transaction ids its
\* messages carried and the session key it generated, None if it did not
\* reach exchange_keys
AttemptRecord ==
    [tids |-> { q_sent[i].transaction_id : i \in DOMAIN q_sent },
     session_key |-> IF \E i \in DOMAIN q_log : q_log[i].step = "exchange_keys"
                     THEN q_session ELSE None]

RunInit ==
    /\ q_pc = "idle"
    /\ q_arg = None
    /\ q_tid = None
    /\ q_connected = FALSE
    /\ q_key = NoKey
    /\ q_sent = <<>>
    /\ q_log = <<>>
    /\ q_ret = "None"
    /\ q_recvs = 0
    /\ q_session = None
    /\ q_prev = <<>>

outsideRun ==
    <<phVars, flow_pc, recvVars, sv_message_queue, sv_messages_received,
      sv_messages_forwarded, sv_messages_dropped, sv_errors, sv_item, sv_sent,
      up_replies, fw_ok, fw, sv_in,
      up_sent, concVars, e2eVars, frameVars, signVars, stopVars>>

\* One step of the flow has returned ok (sender.py:410-445)
StepReturns(step, ok, received, result) ==
    /\ q_log' = Append(q_log, [step |-> step, ok |-> ok, received |-> received,
                               result |-> result])
    /\ q_pc' = send_file_complete_flow(step, ok)
    /\ q_ret' = IF send_file_complete_flow(step, ok) = "returned"
                THEN (IF ok THEN "True" ELSE "False") ELSE q_ret

\* sender.py:389-408: the call, and connect_to_server when not connected
RunStart ==
    /\ q_pc = "idle"
    /\ \E transaction_id \in TransactionArgs, connected \in BOOLEAN :
          /\ q_arg' = transaction_id
          /\ q_connected' = (q_connected \/ connected)
          /\ q_pc' = IF q_connected \/ connected
                     THEN "perform_handshake" ELSE "returned"
          /\ q_ret' = IF q_connected \/ connected THEN q_ret ELSE "False"
    /\ UNCHANGED <<q_tid, q_key, q_sent, q_log, q_recvs, q_session, q_prev,
                   outsideRun>>

\* sender.py:107-159: perform_handshake
RunHandshake ==
    /\ q_pc = "perform_handshake"
    /\ q_tid' = IF q_tid = None THEN TimeIds[Attempt] ELSE q_tid
    /\ \E sent \in BOOLEAN, ready_message \in Incoming :
          IF ~sent
          THEN /\ StepReturns("perform_handshake", FALSE, NoMessage, <<>>)
               /\ UNCHANGED <<q_sent, q_recvs>>
          ELSE /\ q_sent' = Append(q_sent, [hello_message EXCEPT
                                               !.transaction_id = q_tid'])
               /\ q_recvs' = q_recvs + 1
               /\ StepReturns("perform_handshake",
                              perform_handshake(ready_message, q_tid'),
                              ready_message, <<>>)
    /\ UNCHANGED <<q_arg, q_connected, q_key, q_session, q_prev, outsideRun>>

\* sender.py:161-195: request_public_key, which connects again
RunPublicKey ==
    /\ q_pc = "request_public_key"
    /\ \E connected \in BOOLEAN, sent \in BOOLEAN, pubkey_message \in Incoming :
          /\ q_connected' = connected
          /\ IF ~connected \/ ~sent
             THEN /\ StepReturns("request_public_key", FALSE, NoMessage, <<>>)
                  /\ UNCHANGED <<q_sent, q_recvs, q_key>>
             ELSE /\ q_sent' = Append(q_sent, [get_key_message EXCEPT
                                                  !.transaction_id = q_tid])
                  /\ q_recvs' = q_recvs + 1
                  /\ q_key' = IF request_public_key(pubkey_message, q_tid) # NoKey
                              THEN request_public_key(pubkey_message, q_tid)
                              ELSE q_key
                  /\ StepReturns("request_public_key",
                                 request_public_key(pubkey_message, q_tid)
                                    # NoKey,
                                 pubkey_message, <<>>)
    /\ UNCHANGED <<q_arg, q_tid, q_session, q_prev, outsideRun>>

\* sender.py:197-236: exchange_keys
RunKeys ==
    /\ q_pc = "exchange_keys"
    /\ q_session' = GeneratedKeys[Attempt]
    /\ \E sent \in BOOLEAN :
          /\ q_sent' = IF sent
                       THEN Append(q_sent,
                                   session_key_message(sender_id, q_session',
                                                       q_key, q_tid))
                       ELSE q_sent
          /\ StepReturns("exchange_keys", sent, NoMessage, <<>>)
    /\ UNCHANGED <<q_arg, q_tid, q_connected, q_key, q_recvs, q_prev,
                   outsideRun>>

\* sender.py:238-341: encrypt_and_send_file(file_path, transaction_id)
RunFile ==
    /\ q_pc = "encrypt_and_send_file"
    /\ \E readable \in BOOLEAN, sent \in BOOLEAN :
          LET transaction_id == file_transaction_id(q_arg, q_tid)
          IN /\ q_tid' = IF readable THEN transaction_id ELSE q_tid
             /\ q_sent' = IF readable /\ sent
                          THEN Append(q_sent,
                                      file_message("S", sender_id, FileContent,
                                                   "hello.txt", q_session,
                                                   SenderIv, transaction_id))
                          ELSE q_sent
             /\ StepReturns("encrypt_and_send_file", readable /\ sent,
                            NoMessage, <<>>)
    /\ UNCHANGED <<q_arg, q_connected, q_key, q_recvs, q_session, q_prev,
                   outsideRun>>

\* sender.py:343-387 and 432-445: wait_for_acknowledgment
RunAck ==
    /\ q_pc = "wait_for_acknowledgment"
    /\ \E ack_message \in Incoming :
          /\ q_recvs' = q_recvs + 1
          /\ StepReturns("wait_for_acknowledgment",
                         wait_for_acknowledgment(ack_message).success,
                         ack_message, wait_for_acknowledgment(ack_message))
    /\ UNCHANGED <<q_arg, q_tid, q_connected, q_key, q_sent, q_session, q_prev,
                   outsideRun>>

\* send_file_complete_flow has returned and is called again on the same
\* Sender object: the object keeps current_transaction_id, session_key,
\* receiver_public_key and is_connected (sender.py:45-58 run once only)
RunAgain ==
    /\ q_pc = "returned"
    /\ Attempt < MaxAttempts
    /\ q_prev' = Append(q_prev, AttemptRecord)
    /\ q_pc' = "idle"
    /\ q_arg' = None
    /\ q_sent' = <<>>
    /\ q_log' = <<>>
    /\ q_ret' = "None"
    /\ q_recvs' = 0
    /\ UNCHANGED <<q_tid, q_connected, q_key, q_session, outsideRun>>

(***************************************************************************)
(* A signature made by sign_metadata and checked by verify_signature       *)
(* (crypto_handler.py:253-298), the two metadata dicts and the two keys    *)
(* chosen freely.                                                          *)
(***************************************************************************)
\* The orders in which the three fields are inserted into a dict
InsertionOrders ==
    { <<"filename", "transaction_id", "file_size">>,
      <<"file_size", "transaction_id", "filename">>,
      <<"transaction_id", "file_size", "filename">> }

MetadataValues ==
    [filename : {"hello.txt", "evil.txt"},
     transaction_id : {"tx_1000_demo", "tx_2000_demo"},
     file_size : {10, 11}]

\* The dict with the fields of v inserted in the given order
DictOf(order, v) == [i \in DOMAIN order |-> <<order[i], v[order[i]]>>]

SignedDicts ==
    { DictOf(<<"filename", "transaction_id", "file_size">>, v) :
        v \in MetadataValues }

VerifiedDicts ==
    { DictOf(order, v) : order \in InsertionOrders, v \in MetadataValues }
    \cup { DictOf(<<"filename", "transaction_id">>, v) : v \in MetadataValues }

KeyOwners == {"S", "A"}

SignInit ==
    /\ g_pc = "start"
    /\ g_m1 = <<>>
    /\ g_priv = None
    /\ g_sig = None
    /\ g_m2 = <<>>
    /\ g_pub = None
    /\ g_ok = FALSE

outsideSign ==
    <<phVars, flow_pc, recvVars, sv_message_queue, sv_messages_received,
      sv_messages_forwarded, sv_messages_dropped, sv_errors, sv_item, sv_sent,
      up_replies, fw_ok, fw, sv_in, up_sent, concVars, e2eVars, frameVars,
      runVars, stopVars>>

\* crypto_handler.py:253-272
SignMetadata ==
    /\ g_pc = "start"
    /\ \E metadata \in SignedDicts, owner \in KeyOwners :
          /\ g_m1' = metadata
          /\ g_priv' = owner
          /\ g_sig' = sign_metadata(metadata, private_key(owner))
    /\ g_pc' = "signed"
    /\ UNCHANGED <<g_m2, g_pub, g_ok, outsideSign>>

\* crypto_handler.py:274-298
VerifySignature ==
    /\ g_pc = "signed"
    /\ \E metadata \in VerifiedDicts, owner \in KeyOwners :
          /\ g_m2' = metadata
          /\ g_pub' = owner
          /\ g_ok' = verify_signature(metadata, g_sig, public_key(owner))
    /\ g_pc' = "verified"
    /\ UNCHANGED <<g_m1, g_priv, g_sig, outsideSign>>

(***************************************************************************)
(* ServerSocketHandler.stop_server (socket_handler.py:360-374) running     *)
(* while the accept thread and the client threads run. Its loop over       *)
(* client_handlers.items() is a dict iterator: each step of it raises      *)
(* RuntimeError when the size of the dict is not what it was when the      *)
(* loop began.                                                             *)
(***************************************************************************)
StopInit ==
    /\ st_pc = "running"
    /\ st_used = 0
    /\ st_visited = {}
    /\ st_closed = {}
    /\ listening = TRUE

outsideStop ==
    <<phVars, flow_pc, recvVars, sv_message_queue, sv_messages_received,
      sv_messages_forwarded, sv_messages_dropped, sv_errors, sv_item, sv_sent,
      up_replies, fw_ok, fw, sv_in, up_sent, e2eVars, frameVars, runVars,
      signVars, cn_pc, cn_inbox, cn_nsent, cn_msg, cn_load, cn_out, cn_hist,
      connections, connection_lock, mr_writers, ch_writers, table_writers,
      cn_up, sweepVars>>

\* socket_handler.py:240-246: the accept thread takes a connection while the
\* listening socket is open
StopAccept(c) ==
    /\ listening
    /\ Accept(c)

\* socket_handler.py:362-365: is_running is cleared and the loop begins
StopBegin ==
    /\ st_pc = "running"
    /\ st_pc' = "iterating"
    /\ st_used' = Cardinality(client_handlers)
    /\ st_visited' = {}
    /\ UNCHANGED <<st_closed, listening, client_handlers, outsideStop>>

\* socket_handler.py:365-366: one step of the loop: the iterator raises, or
\* gives an entry whose socket is closed, or is exhausted
StopNext ==
    /\ st_pc = "iterating"
    /\ IF Cardinality(client_handlers) # st_used
       THEN /\ st_pc' = "error"
            /\ UNCHANGED <<st_visited, st_closed>>
       ELSE IF client_handlers \ st_visited = {}
       THEN /\ st_pc' = "clearing"
            /\ UNCHANGED <<st_visited, st_closed>>
       ELSE \E c \in client_handlers \ st_visited :
               /\ st_visited' = st_visited \cup {c}
               /\ st_closed' = st_closed \cup {c}
               /\ st_pc' = "iterating"
    /\ UNCHANGED <<st_used, listening, client_handlers, outsideStop>>

\* socket_handler.py:367
StopClear ==
    /\ st_pc = "clearing"
    /\ client_handlers' = {}
    /\ st_pc' = "closing"
    /\ UNCHANGED <<st_used, st_visited, st_closed, listening, outsideStop>>

\* socket_handler.py:369-374
StopListener ==
    /\ st_pc = "closing"
    /\ listening' = FALSE
    /\ st_pc' = "stopped"
    /\ UNCHANGED <<st_used, st_visited, st_closed, client_handlers,
                   outsideStop>>

WireInit == FrameInit /\ RunInit /\ SignInit /\ StopInit

(***************************************************************************)
(* Specifications                                                          *)
(***************************************************************************)
vars == <<phVars, flow_pc, recvVars, relayVars>>

InitPH ==
    PHInit /\ flow_pc = 0 /\ RecvInit /\ RelayInit /\ ConcInit /\ E2EInit
    /\ WireInit

NextPH ==
    \/ ProcessMessage
    \/ StartTransaction
    \/ UpdateTransaction
    \/ CompleteTransaction

SpecPH == InitPH /\ [][NextPH]_vars

InitFlow ==
    FlowInit /\ RecvInit /\ RelayInit /\ ConcInit /\ E2EInit
    /\ WireInit

NextFlow == FlowStep

SpecFlow == InitFlow /\ [][NextFlow]_vars

InitRecv ==
    PHInit /\ flow_pc = 0 /\ RecvInit /\ RelayInit /\ ConcInit /\ E2EInit
    /\ WireInit

NextRecv ==
    \/ Deliver
    \/ SenderRequestPublicKey
    \/ SenderExchangeKeys
    \/ SenderSendFile

SpecRecv == InitRecv /\ [][NextRecv]_vars

InitRelay ==
    PHInit /\ flow_pc = 0 /\ RecvInit /\ RelayInit /\ ConcInit /\ E2EInit
    /\ WireInit

NextRelay ==
    \/ RelayHandleMessage
    \/ QueueMessageForForwarding
    \/ WorkerPop
    \/ WorkerForward

SpecRelay == InitRelay /\ [][NextRelay]_vars

\* The forwarding worker runs (server_intermediate.py:111-114, 199): its
\* loop takes the head of a queue that is not empty and ends the forward it
\* has begun, every socket call of _forward_message being bounded by the
\* timeout of line 240.
SpecWorker ==
    InitRelay /\ [][NextRelay]_vars
    /\ WF_vars(WorkerPop) /\ WF_vars(WorkerForward)

InitConc ==
    PHInit /\ flow_pc = 0 /\ RecvInit /\ RelayInit /\ ConcInit /\ E2EInit
    /\ WireInit

NextConc ==
    \/ \E c \in Conns : Accept(c)
    \/ \E c \in Conns : ClientSend(c)
    \/ \E c \in Conns : Receive(c)
    \/ \E c \in Conns : Count(c)
    \/ \E c \in Conns : ForwardReturn(c)
    \/ \E c \in Conns : ClientClose(c)
    \/ CleanupLock
    \/ CleanupSweep

SpecConc == InitConc /\ [][NextConc]_vars

\* The same server with time passing on its idle connections
NextSweep ==
    \/ NextConc
    \/ \E c \in Conns : IdleTimeout(c)

SpecSweep == InitConc /\ [][NextSweep]_vars

\* The socket server being stopped while clients connect and leave
NextStop ==
    \/ \E c \in Conns : StopAccept(c)
    \/ \E c \in Conns : ClientClose(c)
    \/ StopBegin
    \/ StopNext
    \/ StopClear
    \/ StopListener

SpecStop == InitConc /\ [][NextStop]_vars

InitE2E ==
    PHInit /\ flow_pc = 0 /\ RecvInit /\ RelayInit /\ ConcInit /\ E2EInit
    /\ WireInit

NextE2E ==
    \/ ConnectAndSendHello
    \/ ReceiveReady
    \/ RequestPublicKey
    \/ ReceivePublicKey
    \/ ExchangeKeys
    \/ EncryptAndSendFile
    \/ WaitForAcknowledgment
    \/ \E n \in FlowMessages : S1Handle(n)
    \/ \E n \in FlowMessages : S2Handle(n)
    \/ \E n \in FlowMessages : ReceiverHandle(n)
    \/ \E n \in FlowMessages : S2Return(n)
    \/ \E n \in FlowMessages : S1Return(n)
    \/ \E n \in FlowMessages : S2ThreadExit(n)
    \/ \E n \in FlowMessages : ReceiverThreadExit(n)
    \/ S1ThreadExit
    \/ Tick

InitFrame ==
    PHInit /\ flow_pc = 0 /\ RecvInit /\ RelayInit /\ ConcInit /\ E2EInit
    /\ WireInit

NextFrame ==
    \/ ClientSendMessage
    \/ ClientWriteRaw
    \/ ClientDisconnect
    \/ ListenerTurn
    \/ ClientReceive

SpecFrame == InitFrame /\ [][NextFrame]_vars

InitRun ==
    PHInit /\ flow_pc = 0 /\ RecvInit /\ RelayInit /\ ConcInit /\ E2EInit
    /\ WireInit

NextRun ==
    \/ RunStart
    \/ RunHandshake
    \/ RunPublicKey
    \/ RunKeys
    \/ RunFile
    \/ RunAck
    \/ RunAgain

SpecRun == InitRun /\ [][NextRun]_vars

InitSign ==
    PHInit /\ flow_pc = 0 /\ RecvInit /\ RelayInit /\ ConcInit /\ E2EInit
    /\ WireInit

NextSign ==
    \/ SignMetadata
    \/ VerifySignature

SpecSign == InitSign /\ [][NextSign]_vars

\* Every component runs: a thread that can take a step, the clock included,
\* takes one in the end.
SpecE2E == InitE2E /\ [][NextE2E]_vars /\ WF_vars(NextE2E)

(***************************************************************************)
(* Claims about the ProtocolHandler                                        *)
(***************************************************************************)
\* The validator that process_message runs for a message type
ValidatorFor(message) ==
    CASE message.type = "HELLO" -> validate_hello_message(message)
      [] message.type = "READY" -> validate_ready_message(message)
      [] message.type = "PUBLIC_KEY" -> validate_public_key_message(message)
      [] message.type = "SESSION_KEY" -> validate_session_key_message(message)
      [] message.type = "FILE_DATA" -> validate_file_data_message(message)
      [] message.type = "ACK" -> validate_ack_message(message)
      [] message.type = "NACK" -> validate_nack_message(message)

Validated == {"HELLO", "READY", "PUBLIC_KEY", "SESSION_KEY", "FILE_DATA",
              "ACK", "NACK"}

\* C1 (as claimed): no transaction id is in active_transactions and in
\* completed_transactions at the same time.
C1_ActiveCompletedDisjoint ==
    DOMAIN active_transactions \cap DOMAIN completed_transactions = {}

\* C5: from IDLE, the valid messages HELLO, READY, SESSION_KEY, FILE_DATA, ACK
\* processed in that order move current_state through HANDSHAKE, KEY_EXCHANGE,
\* FILE_TRANSFER, ACK_WAIT, COMPLETED, one state per message, and every call
\* returns success.
C5_FlowStates ==
    /\ current_state = FlowStates[flow_pc + 1]
    /\ flow_pc > 0 => /\ previous_state = FlowStates[flow_pc]
                      /\ ph_ret.success
    /\ Len(state_history) = flow_pc
    /\ \A i \in 1 .. flow_pc : state_history[i][1] = FlowStates[i + 1]

C5_Witness ==
    /\ flow_pc = 5
    /\ current_state = COMPLETED
    /\ "tx_1000_demo" \in DOMAIN completed_transactions

\* C6 (as claimed): a structurally valid FILE_DATA processed while
\* current_state is not FILE_TRANSFER returns failure and leaves current_state
\* unchanged.
ValidFileData ==
    { in \in PHInputs : /\ Get(in[1], "type") = "FILE_DATA"
                        /\ validate_file_data_message(in[1])[1] }

C6_FileDataBeforeSessionKey ==
    [][ ( /\ current_state # FILE_TRANSFER
          /\ \E in \in ValidFileData :
                Install(process_message(H, in[1], in[2], 0)) )
        => ( ~ph_ret'.success /\ current_state' = current_state ) ]_vars

\* C7: a HELLO, READY, PUBLIC_KEY, SESSION_KEY, FILE_DATA, ACK or NACK that
\* its validator rejects makes process_message return (False, reason, None),
\* the reason being the validator's, and leaves current_state,
\* previous_state, state_history, active_transactions and
\* completed_transactions as they were.
RejectedInputs ==
    { in \in PHInputs : /\ Get(in[1], "type") \in Validated
                        /\ ~ValidatorFor(in[1])[1] }

C7_RejectedLeavesState ==
    \A in \in RejectedInputs : \A now \in NowFor(in) :
        LET r == process_message(H, in[1], in[2], now)
        IN /\ r.ret = Ret(FALSE, ValidatorFor(in[1])[2], NoResponse)
           /\ r.h = H

\* A rejected HELLO was the last call, made while a transaction is active and
\* the handler has left IDLE.
C7_Witness ==
    /\ ph_ret = Ret(FALSE, "Thieu field 'sender_id' trong data", NoResponse)
    /\ active_transactions # <<>>
    /\ current_state # IDLE

(***************************************************************************)
(* Claims about the Receiver                                               *)
(***************************************************************************)
\* The last _handle_message made the call named step
Did(step) == \E i \in DOMAIN r_steps : r_steps[i] = step

\* A FILE_DATA message that reaches the signature check
WellFormed(m) ==
    /\ Get(m, "type") = "FILE_DATA"
    /\ validate_file_data_message(m)[1]
    /\ Has(m.data.metadata, "public_key_sender")
    /\ m.data.metadata.public_key_sender.enc = "pem"

\* The signature of m is the one the holder of the private key matching the
\* public key in the metadata produces for that metadata.
SigValid(m) ==
    m.data.sig = sign_metadata(items(m.data.metadata),
                               private_key(m.data.metadata.public_key_sender.val.pub))

\* The hash of m is SHA-512(IV || ciphertext) of the IV and ciphertext in m.
HashValid(m) ==
    m.data.hash = calculate_file_integrity_hash(b64decode(m.data.iv),
                                                b64decode(m.data.cipher))

\* The ciphertext of m decrypts under the session key k.
DecryptValid(m, k) == b64decode(m.data.cipher).key = k

\* C2: for every FILE_DATA message the Receiver handled, a file was written
\* only if signature check, hash check and decryption all succeeded and the
\* reply is ACK; when the reply is NACK no file was written for the message.
C2_WrittenOnlyWithAck ==
    Get(r_msg, "type") = "FILE_DATA" =>
        /\ Did("write") => /\ SigValid(r_msg)
                           /\ HashValid(r_msg)
                           /\ DecryptValid(r_msg, r_session_key)
                           /\ Get(r_reply, "type") = "ACK"
        /\ Get(r_reply, "type") = "NACK" => ~Did("write")

FileDataSteps ==
    <<"import_key_from_pem", "verify_signature", "verify_file_integrity",
      "decrypt_file_des", "write", "on_new_file">>

IsPrefix(s, t) == Len(s) <= Len(t) /\ \A i \in 1..Len(s) : s[i] = t[i]

\* C3: handling FILE_DATA, the Receiver verifies the signature before it
\* checks the hash, checks the hash before it decrypts and decrypts before
\* it writes, each call made only when the one before succeeded; a message
\* whose signature is invalid is answered with NACK, with no hash check, no
\* decryption and the output directory unchanged.
C3_SignatureHashDecryptPersist ==
    [][ ( /\ r_messages_received' = r_messages_received + 1
          /\ Get(r_msg', "type") = "FILE_DATA" )
        => /\ IsPrefix(r_steps', FileDataSteps)
           /\ Did("verify_file_integrity")' => SigValid(r_msg')
           /\ Did("decrypt_file_des")' => HashValid(r_msg')
           /\ Did("write")' => DecryptValid(r_msg', r_session_key)
           /\ (WellFormed(r_msg') /\ ~SigValid(r_msg'))
                => /\ Get(r_reply', "type") = "NACK"
                   /\ r_steps' = <<"import_key_from_pem", "verify_signature">>
                   /\ r_files' = r_files ]_vars

\* The Sender's packet with only the signature replaced was refused at the
\* signature check, the session key being installed.
C3_Witness ==
    /\ WellFormed(r_msg)
    /\ ~SigValid(r_msg)
    /\ HashValid(r_msg)
    /\ DecryptValid(r_msg, r_session_key)
    /\ r_msg.data.metadata.public_key_sender = export_key_to_pem(public_key("S"))
    /\ Get(r_reply, "type") = "NACK"
    /\ r_steps = <<"import_key_from_pem", "verify_signature">>

\* C4: whatever the relays do, the Receiver persists and ACKs a FILE_DATA
\* message only if it is a packet the Sender built and signed, in this
\* transfer or in its second one.
C4_AcceptsOnlySenderPacket ==
    (Get(r_msg, "type") = "FILE_DATA" /\ Get(r_reply, "type") = "ACK")
        => r_msg \in s_sent \cup OtherTransaction

(***************************************************************************)
(* Claims about the IntermediateServer                                     *)
(***************************************************************************)
Queued(id) ==
    \/ \E i \in DOMAIN sv_message_queue : sv_message_queue[i].id = id
    \/ (sv_item # NoItem /\ sv_item.id = id)

RECURSIVE SumDrops(_)
SumDrops(n) == IF n = 0 THEN 0 ELSE fw[n].drops + SumDrops(n - 1)

\* C8 as stated: an entry whose forward attempts all fail is attempted
\* exactly 3 times in total, then dropped once and never attempted again.
C8_ThreeAttemptsThenDrop ==
    \A id \in DOMAIN fw :
        /\ fw[id].failed <= 3
        /\ fw[id].drops = 1 => fw[id].failed = 3

\* C8 amended: an entry whose forward attempts all fail is attempted exactly
\* 4 times in total (the first attempt and 3 retries), then messages_dropped
\* is incremented exactly once for it and it is never attempted again.
C8_FourAttemptsThenDrop ==
    /\ \A id \in DOMAIN fw :
          /\ fw[id].attempts <= 4
          /\ fw[id].drops <= 1
          /\ fw[id].drops = 1 <=> (fw[id].failed = 4 /\ ~Queued(id))
          /\ fw[id].failed = fw[id].attempts =>
                (Queued(id) <=> fw[id].failed < 4)
    /\ sv_messages_dropped = SumDrops(Len(fw))

C8_Witness ==
    \E id \in DOMAIN fw :
        /\ fw[id].attempts = 4
        /\ fw[id].failed = 4
        /\ fw[id].drops = 1
        /\ sv_messages_dropped >= 1
        /\ sv_item = NoItem

\* C9: every successful forward of an inbound message to the upstream peer
\* adds exactly one to stats['messages_forwarded'], so the counter equals
\* the number of messages forwarded.
C9_ForwardedCounter == sv_messages_forwarded = fw_ok

\* C10: when the upstream peer writes two replies for a forwarded message
\* the relay returns both, first reply first; when it writes one, the relay
\* returns exactly that one.
C10_BothRepliesRelayed == Len(up_replies) \in {1, 2} => sv_sent = up_replies

(***************************************************************************)
(* C11: when the upstream connect, send or receive of a forward fails or   *)
(* times out, _forward_message returns None and raises nothing (the        *)
(* handler's except branch is not taken: errors is unchanged), the relay's *)
(* handler returns None (no frame is written back), the inbound connection *)
(* stays open with its thread back in receive_message, and the other       *)
(* connections are not touched.                                            *)
(***************************************************************************)
Last(s) == s[Len(s)]

FailedForward(c) ==
    /\ cn_pc[c] = "forwarding"
    /\ cn_pc'[c] # "forwarding"
    /\ Last(cn_hist'[c]) = "failed"

C11_FailedForwardKeepsServing ==
    [][\A c \in Conns :
         FailedForward(c) =>
            /\ cn_pc'[c] = "recv"
            /\ c \in client_handlers'
            /\ cn_out'[c] = cn_out[c]
            /\ cn_inbox'[c] = cn_inbox[c]
            /\ sv_errors' = sv_errors
            /\ \A d \in Conns \ {c} :
                  /\ cn_pc'[d] = cn_pc[d]
                  /\ (d \in client_handlers') = (d \in client_handlers)]_vars

\* After a failed forward on c1 a later message of c1 and a message of c2
\* have been forwarded and answered.
C11_Witness ==
    /\ cn_hist["c1"] = <<"failed", "ok">>
    /\ cn_hist["c2"] = <<"ok">>
    /\ Len(cn_out["c1"]) = 1
    /\ "c1" \in client_handlers

(***************************************************************************)
(* C12: forwarding does not block a relay's inbound handler: while the     *)
(* forward of one message of a connection is waiting for its upstream      *)
(* reply and the next message of that connection has arrived, the thread   *)
(* of the connection can receive it and start handling it.                 *)
(***************************************************************************)
C12_ForwardDoesNotBlockInbound ==
    \A c \in Conns :
        (cn_pc[c] = "forwarding" /\ cn_inbox[c] # <<>>) => ENABLED Receive(c)

(***************************************************************************)
(* C13: in a relay every mutation of the connection table is made by the   *)
(* holder of connection_lock, and the other mutable state, here the        *)
(* messages_received counter and the socket server's client_handlers map,  *)
(* is written by at most one task. (The forwarding queue is mutated only   *)
(* by QueueMessageForForwarding, WorkerPop and WorkerForward, each of them *)
(* one `with self.queue_lock` block of the source.)                        *)
(***************************************************************************)
C13_ExclusiveAccess ==
    /\ \A w \in table_writers : w[2] = w[1]
    /\ Cardinality(mr_writers) <= 1
    /\ Cardinality(ch_writers) <= 1

(***************************************************************************)
(* C14: the Receiver holds session keys per transaction: when the          *)
(* SESSION_KEY of transaction T has been handled, the key with which a     *)
(* later FILE_DATA of T is decrypted is a key that a SESSION_KEY message   *)
(* of T delivered, whatever SESSION_KEY messages of other transactions     *)
(* were handled in between.                                                *)
(***************************************************************************)
KeysOf(transaction_id, i) ==
    { r_handled[j].key :
        j \in { n \in 1 .. (i - 1) :
                  /\ r_handled[n].type = "SESSION_KEY"
                  /\ r_handled[n].transaction_id = transaction_id
                  /\ ~r_handled[n].raised } }

C14_SessionKeyPerTransaction ==
    \A i \in DOMAIN r_handled :
        LET h == r_handled[i]
        IN (h.type = "FILE_DATA" /\ h.decrypt
               /\ KeysOf(h.transaction_id, i) # {})
              => h.key \in KeysOf(h.transaction_id, i)

(***************************************************************************)
(* C15: the Receiver answers a FILE_DATA of transaction T with ACK only    *)
(* if it has handled a HELLO of T and after it a SESSION_KEY of T; a       *)
(* FILE_DATA out of that order is answered with NACK and nothing is        *)
(* written.                                                                *)
(***************************************************************************)
InOrder(i) ==
    \E j \in 1 .. (i - 1), k \in 1 .. (i - 1) :
        /\ j < k
        /\ r_handled[j].type = "HELLO"
        /\ r_handled[j].transaction_id = r_handled[i].transaction_id
        /\ r_handled[j].reply = "READY"
        /\ r_handled[k].type = "SESSION_KEY"
        /\ r_handled[k].transaction_id = r_handled[i].transaction_id
        /\ ~r_handled[k].raised

C15_AckOnlyInOrder ==
    \A i \in DOMAIN r_handled :
        (r_handled[i].type = "FILE_DATA" /\ ~InOrder(i))
            => (r_handled[i].reply = "NACK" /\ ~r_handled[i].written)

(***************************************************************************)
(* C16: when process_message accepts a valid HELLO carrying a transaction  *)
(* id that is in neither store, the id is in active_transactions           *)
(* afterwards; a HELLO for an id that is already active adds no record.    *)
(***************************************************************************)
ValidHello ==
    { in \in PHInputs : /\ Get(in[1], "type") = "HELLO"
                        /\ validate_hello_message(in[1])[1]
                        /\ Get(in[1], "transaction_id") \in TxIds }

C16_HelloCreatesTransaction ==
    [][ \A in \in ValidHello :
          ( /\ in[1].transaction_id \notin DOMAIN active_transactions
            /\ in[1].transaction_id \notin DOMAIN completed_transactions
            /\ Install(process_message(H, in[1], in[2], 0))
            /\ ph_ret'.success )
          => /\ in[1].transaction_id \in DOMAIN active_transactions'
             /\ DOMAIN active_transactions' =
                   DOMAIN active_transactions \cup {in[1].transaction_id} ]_vars

(***************************************************************************)
(* C17: process_message moves a transaction from active_transactions to    *)
(* completed_transactions only for a valid ACK (success true) or NACK      *)
(* (success false) carrying its id, and an ACK or NACK for an id that is   *)
(* already in completed_transactions leaves that record's success,         *)
(* result, end_time and duration as they are.                              *)
(***************************************************************************)
Outcome(t) == <<t.success, t.result, t.end_time, t.duration>>

C17_CompletedOnceByAckOrNack ==
    \A in \in PHInputs, now \in Times :
        LET r == process_message(H, in[1], in[2], now)
            type == Get(in[1], "type")
        IN \A tid \in TxIds :
             /\ ( /\ tid \in DOMAIN active_transactions
                  /\ tid \notin DOMAIN r.h.active_transactions )
                => /\ type \in {"ACK", "NACK"}
                   /\ r.ret.success
                   /\ in[1].transaction_id = tid
                   /\ tid \in DOMAIN r.h.completed_transactions
                   /\ r.h.completed_transactions[tid].success = (type = "ACK")
             /\ tid \in DOMAIN completed_transactions
                => /\ tid \in DOMAIN r.h.completed_transactions
                   /\ Outcome(r.h.completed_transactions[tid]) =
                         Outcome(completed_transactions[tid])

(***************************************************************************)
(* C18: start_transaction returns False for an id that is in               *)
(* active_transactions and leaves the handler, the existing record         *)
(* included, as it was; for any other id it returns True and adds one      *)
(* record, with state IDLE, leaving the other records as they were.        *)
(***************************************************************************)
C18_StartTransaction ==
    \A tid \in TxIds \cup {"tx_2000_demo"}, initiator \in Initiators,
       now \in Times :
        LET r == start_transaction(H, tid, initiator, "receiver", EmptyDict, now)
        IN IF tid \in DOMAIN active_transactions
           THEN ~r.ret /\ r.h = H
           ELSE /\ r.ret
                /\ DOMAIN r.h.active_transactions =
                      DOMAIN active_transactions \cup {tid}
                /\ r.h.active_transactions[tid].state = IDLE
                /\ \A other \in DOMAIN active_transactions :
                      r.h.active_transactions[other] = active_transactions[other]
                /\ r.h.completed_transactions = completed_transactions

\* start_transaction has just refused an id whose record had gone on to
\* HANDSHAKE, and the record is still as it was
C18_Witness ==
    /\ ph_ret = Ret(FALSE, "start_transaction", NoResponse)
    /\ "tx_1000_demo" \in DOMAIN active_transactions
    /\ active_transactions["tx_1000_demo"].state = HANDSHAKE

(***************************************************************************)
(* C19: complete_transaction on an id that is unknown or already in        *)
(* completed_transactions returns False and leaves both stores as they     *)
(* were; a second call for the same id changes nothing that the first call *)
(* left.                                                                   *)
(***************************************************************************)
C19_CompleteIdempotent ==
    \A tid \in TxIds \cup {"tx_2000_demo"}, success \in BOOLEAN,
       result \in Results, now \in Times :
        LET r == complete_transaction(H, tid, success, result, now)
            again == complete_transaction(r.h, tid, success, result, now)
        IN /\ ( \/ tid \in DOMAIN completed_transactions
                \/ tid \notin DOMAIN active_transactions )
              => ~r.ret /\ r.h = H
           /\ again.h = r.h

(***************************************************************************)
(* C20: with the Sender, both relays and the Receiver running and no       *)
(* message lost or altered, send_file_complete_flow eventually returns     *)
(* True: READY, PUBLIC_KEY and ACK have each reached the Sender from the   *)
(* Receiver through server2 and server1, the Receiver has handled          *)
(* SESSION_KEY before FILE_DATA, and the file it has written is the        *)
(* source file.                                                            *)
(***************************************************************************)
ThroughBothHops(n, type) ==
    /\ Get(e_reply[n], "type") = type
    /\ e_path[n] = <<"receiver", "server2", "server1", "sender">>

KeyBeforeFile ==
    \E i \in DOMAIN r_handled, j \in DOMAIN r_handled :
        /\ i < j
        /\ r_handled[i].type = "SESSION_KEY"
        /\ ~r_handled[i].raised
        /\ r_handled[j].type = "FILE_DATA"
        /\ r_handled[j].reply = "ACK"

FlowSucceeded ==
    /\ e_pc = "returned"
    /\ e_ret
    /\ ThroughBothHops(1, "READY")
    /\ ThroughBothHops(2, "PUBLIC_KEY")
    /\ ThroughBothHops(4, "ACK")
    /\ KeyBeforeFile
    /\ DOMAIN r_files = {"hello.txt"}
    /\ r_files["hello.txt"] = FileContent

C20_FlowReturnsTrue == <>FlowSucceeded

\* The flow has returned True after both relays had given up waiting for a
\* reply to SESSION_KEY, ten seconds into the Sender's wait for the ACK
C20_Witness ==
    /\ FlowSucceeded
    /\ e_t1[3] = ForwardTimeout
    /\ e_t2[3] = ForwardTimeout
    /\ e_wait = ForwardTimeout

(***************************************************************************)
(* C21: when the Receiver handles a FILE_DATA message that differs from    *)
(* one the Sender sent only in its cipher field, still base64, it replies  *)
(* NACK with the reason of the integrity hash and writes no file.          *)
(***************************************************************************)
CipherChanged(m) ==
    /\ Get(m, "type") = "FILE_DATA"
    /\ \E sent \in s_sent :
          /\ Get(sent, "type") = "FILE_DATA"
          /\ Has(m, "data") /\ Has(m.data, "cipher")
          /\ m.data.cipher.enc = "b64"
          /\ m.data.cipher # sent.data.cipher
          /\ [m EXCEPT !.data.cipher = sent.data.cipher] = sent

ExactOrNone(entry, stream) ==
    LET e == entry.exacts
    IN /\ e[1].length = 4
       /\ e[1].ok => e[1].data = Take(stream, 4) /\ Len(e[1].data) = 4
       /\ ~e[1].ok => Len(e) = 1 /\ entry.ret = NoMessage
       /\ Len(e) = 2 =>
            /\ e[2].length = from_bytes(e[1].data)
            /\ e[2].ok => /\ Len(e[2].data) = e[2].length
                          /\ e[2].data = SubSeq(stream, 5, 4 + e[2].length)
            /\ ~e[2].ok => entry.ret = NoMessage

\* C22: _receive_exact(sock, n) returns exactly n bytes, assembled from
\* however many partial reads the socket delivers, or None when the peer
\* closed or the socket timed out, never fewer than n bytes; receive_message
\* returns None whenever the 4-byte prefix or the body is incomplete.
C22_ReceiveExact ==
    [][ /\ Len(f_got') = Len(f_got) + 1 =>
             ExactOrNone(f_got'[Len(f_got')], f_wire)
        /\ Len(f_cgot') = Len(f_cgot) + 1 =>
             ExactOrNone(f_cgot'[Len(f_cgot')], f_back) ]_vars

C22_Witness ==
    /\ \E i \in DOMAIN f_got :
          /\ f_got[i].ret # NoMessage
          /\ f_got[i].exacts[1].calls >= 2
    /\ \E i \in DOMAIN f_cgot :
          /\ f_cgot[i].timeout
          /\ Len(f_cgot[i].exacts[1].data) > 0
          /\ f_cgot[i].ret = NoMessage
    /\ \E i \in DOMAIN f_got :
          /\ ~f_got[i].exacts[1].ok
          /\ Len(f_got[i].exacts[1].data) > 0

\* C23: send_message returns True only if all 4 bytes of the big-endian
\* length prefix and then all bytes of the body have been written to the
\* socket, in that order, whatever partial-write sizes the socket accepts.
C23_TrueOnlyWhenAllWritten ==
    \A i \in DOMAIN f_sent :
        (f_sent[i].message # NoMessage /\ f_sent[i].ret)
            => f_sent[i].written = Frame(f_sent[i].message)

\* Write j of the client was a send_message call that put the whole frame
\* of its message on the wire
Whole(j) ==
    /\ f_sent[j].message # NoMessage
    /\ f_sent[j].written = Frame(f_sent[j].message)

\* C24: for every message m and every way the byte stream is split into
\* read chunks, receive_message on the receiving side of send_message(m)
\* returns a message equal to m; messages sent back-to-back on one
\* connection are returned one by one in the order sent, no byte of one
\* attributed to another. Stated for the frames that reached the wire
\* whole: the i-th receive_message of the listener returns the i-th
\* message sent.
C24_FramingRoundTrip ==
    \A i \in DOMAIN f_got :
        (i <= Len(f_sent) /\ \A j \in 1 .. i : Whole(j))
            => f_got[i].ret = f_sent[i].message

C24_Witness ==
    /\ Len(f_got) = 2
    /\ Whole(1) /\ Whole(2)
    /\ f_sent[1].message # f_sent[2].message
    /\ f_got[1].ret = f_sent[1].message
    /\ f_got[2].ret = f_sent[2].message
    /\ f_got[1].exacts[1].calls >= 2
    /\ f_got[2].exacts[1].calls >= 2

\* The well-framed messages of ClientMessages that the Receiver rejects: one
\* fails validate_message_structure, the other the signature check
Rejected == {Drop(hello_message, "source"), BadSigFile}

\* C25: at a listener, a frame that cannot be read or decoded makes
\* receive_message return None, and the connection is closed and removed
\* from client_handlers; a well-framed message that fails validation or a
\* crypto check yields a NACK or no reply at all, and the same connection
\* keeps accepting later messages.
C25_CloseOnlyOnBadFrame ==
    [][ Len(f_got') = Len(f_got) + 1 =>
          LET message == f_got'[Len(f_got')].ret
          IN /\ message = NoMessage => ~f_open' /\ f_back' = f_back
             /\ message # NoMessage => f_open' /\ r_msg' = message
             /\ message \in Rejected =>
                  /\ r_reply' = NoMessage \/ Get(r_reply', "type") = "NACK"
                  /\ f_back' = f_back \o Frames(SentFrames(r_reply'))
                  /\ r_files' = r_files ]_vars

C25_Witness ==
    /\ Len(f_got) = 3
    /\ f_got[1].ret = BadSigFile
    /\ f_got[2].ret = hello_message
    /\ r_handled[1].reply = "NACK"
    /\ r_handled[2].reply = "READY"
    /\ f_got[3].ret = NoMessage
    /\ ~f_open

MessageTypesSent == [i \in DOMAIN q_sent |-> q_sent[i].type]

\* C26: send_file_complete_flow runs handshake, public-key request, key
\* exchange, file send and acknowledgment wait in that order, each at most
\* once; at the first step that fails it returns False, no later step is
\* run and no step is retried.
C26_StepsInOrderOnce ==
    LET n == Len(q_log)
    IN /\ n <= Len(FlowSteps)
       /\ \A i \in 1 .. n : i <= Len(FlowSteps) => q_log[i].step = FlowSteps[i]
       /\ \A i \in 1 .. n - 1 : q_log[i].ok
       /\ (n > 0 /\ ~q_log[n].ok) => q_pc = "returned" /\ q_ret = "False"
       /\ q_ret = "True" => n = Len(FlowSteps) /\ q_log[n].ok
       /\ IsPrefix(MessageTypesSent,
                   <<"HELLO", "GET_PUBLIC_KEY", "SESSION_KEY", "FILE_DATA">>)

C26_Witness ==
    /\ q_pc = "returned"
    /\ q_ret = "False"
    /\ Len(q_log) = 3
    /\ ~q_log[3].ok
    /\ MessageTypesSent = <<"HELLO", "GET_PUBLIC_KEY">>

\* C27: perform_handshake returns True only if the message received after
\* HELLO has type READY, data.message 'Ready!' and the transaction id that
\* was sent in the HELLO; with any other message, or none, it returns False.
C27_HandshakeOnlyOnReady ==
    \A i \in DOMAIN q_log :
        q_log[i].step = "perform_handshake" =>
            LET m == q_log[i].received
            IN q_log[i].ok <=>
                 /\ m # NoMessage
                 /\ q_sent # <<>>
                 /\ q_sent[1].type = "HELLO"
                 /\ Get(m, "type") = "READY"
                 /\ Has(m, "data") /\ Get(m.data, "message") = "Ready!"
                 /\ Get(m, "transaction_id") = q_sent[1].transaction_id

C27_Witness ==
    /\ Len(q_log) = 1
    /\ q_log[1].ok
    /\ q_log[1].received = ReadyReply
    /\ q_pc = "request_public_key"

\* C28: wait_for_acknowledgment reports success only when the next message
\* it receives is an ACK; with no message, a NACK or any other type it
\* reports failure with a reason, FILE_DATA is not sent again and no
\* further message is waited for.
C28_AckOrFailure ==
    [][ (q_pc = "wait_for_acknowledgment" /\ Len(q_log') = Len(q_log) + 1) =>
          LET e == q_log'[Len(q_log')]
          IN /\ e.result.success <=>
                   (e.received # NoMessage /\ Get(e.received, "type") = "ACK")
             /\ e.result.message # <<>>
             /\ Get(e.received, "type") = "NACK" /\ Has(e.received, "data")
                   => e.result.message =
                        <<"File bi tu choi", e.received.data.error>>
             /\ q_sent' = q_sent
             /\ q_recvs' = q_recvs + 1
             /\ q_pc' = "returned"
             /\ q_ret' = IF e.result.success THEN "True" ELSE "False" ]_vars

C28_Witness ==
    /\ Len(q_log) = 5
    /\ q_log[5].received = BadSigNack
    /\ q_log[5].result =
         [success |-> FALSE,
          message |-> <<"File bi tu choi", "File khong hop le: Sai chu ky so!">>]
    /\ q_ret = "False"
    /\ MessageTypesSent = <<"HELLO", "GET_PUBLIC_KEY", "SESSION_KEY", "FILE_DATA">>

\* C30: all messages the Sender emits in one transfer (HELLO, GET_PUBLIC_KEY,
\* SESSION_KEY, FILE_DATA) and the transaction_id inside the signed FILE_DATA
\* metadata carry one and the same transaction id, whatever transaction_id
\* argument is passed to send_file_complete_flow.
C30_OneTransactionId ==
    \A i \in DOMAIN q_sent :
        /\ q_sent[i].transaction_id = q_sent[1].transaction_id
        /\ q_sent[i].type = "FILE_DATA" =>
             q_sent[i].data.metadata.transaction_id = q_sent[1].transaction_id

\* C29: every ACK the Receiver emits carries the data fields message and
\* transaction_id, and every NACK the data fields error and
\* transaction_id, so that validate_ack_message and validate_nack_message
\* accept them.
C29_RepliesValidate ==
    /\ Get(r_reply, "type") = "ACK" =>
          /\ Has(r_reply.data, "message")
          /\ Has(r_reply.data, "transaction_id")
          /\ validate_ack_message(r_reply)[1]
    /\ Get(r_reply, "type") = "NACK" =>
          /\ Has(r_reply.data, "error")
          /\ Has(r_reply.data, "transaction_id")
          /\ validate_nack_message(r_reply)[1]

\* C31: two successive transfer attempts made by the same Sender object use
\* two different transaction ids, and each attempt generates its own fresh
\* session key.
C31_FreshIdAndKeyPerAttempt ==
    \A i \in DOMAIN q_prev :
        /\ q_prev[i].tids \cap AttemptRecord.tids = {}
        /\ (q_prev[i].session_key # None /\ AttemptRecord.session_key # None)
              => q_prev[i].session_key # AttemptRecord.session_key
        /\ \A j \in DOMAIN q_prev :
              i # j => q_prev[i].tids \cap q_prev[j].tids = {}

\* The operations of the crypto engine, base64 decoding of key or payload
\* material included, that _handle_message records in its steps
CryptoSteps ==
    {"b64decode", "decrypt_session_key", "import_key_from_pem",
     "verify_signature", "verify_file_integrity", "decrypt_file_des"}

\* The structural check and the field validation of the message's type
\* both accept the message
ValidationAccepts(message) ==
    /\ validate_message_structure(message)[1]
    /\ message.type = "HELLO" => validate_hello_message(message)[1]
    /\ message.type = "SESSION_KEY" => validate_session_key_message(message)[1]
    /\ message.type = "FILE_DATA" => validate_file_data_message(message)[1]

\* C32: for every message type the Receiver handles, the structural check
\* and the per-type field validation have accepted the message before any
\* crypto operation is applied to its data.
C32_ValidatedBeforeCrypto ==
    (\E i \in DOMAIN r_steps : r_steps[i] \in CryptoSteps)
        => ValidationAccepts(r_msg)

\* The message has a destination, and it is not the relay's own id
AddressedElsewhere(message) ==
    /\ Get(message, "destination") \notin {None, ""}
    /\ Get(message, "destination") # server_id

\* C33: a relay forwards an inbound message to its upstream peer if and only
\* if the message has a destination that differs from the relay's own id; a
\* message addressed to the relay itself, or without destination, is not
\* forwarded and produces no reply.
C33_ForwardsIffAddressedElsewhere ==
    sv_in # NoMessage =>
        /\ up_sent = <<sv_in>> <=> AddressedElsewhere(sv_in)
        /\ ~AddressedElsewhere(sv_in) => up_sent = <<>> /\ sv_sent = <<>>

\* A message for the relay itself was handled, nothing was forwarded and
\* nothing written back, after an earlier message had been forwarded and
\* answered
C33_Witness ==
    /\ sv_in # NoMessage
    /\ Get(sv_in, "destination") = server_id
    /\ up_sent = <<>>
    /\ sv_sent = <<>>
    /\ fw_ok >= 1
    /\ sv_messages_received = 2

\* The two dicts have the same fields with the same values
SameItems(m1, m2) ==
    { m1[i] : i \in DOMAIN m1 } = { m2[i] : i \in DOMAIN m2 }

\* The field k of m2 is not what it is in m1
Changed(m1, m2, k) ==
    HasKey(m1, k) /\ (~HasKey(m2, k) \/ Lookup(m2, k) # Lookup(m1, k))

\* C34: verify_signature(m2, sign_metadata(m1, priv), pub) is True if and
\* only if m1 and m2 have the same fields with the same values and pub is
\* the public key of priv, whatever the insertion order of the fields;
\* a changed filename, file_size or transaction_id in m2 makes it False.
C34_SignatureSoundness ==
    g_pc = "verified" =>
        /\ g_ok <=> (SameItems(g_m1, g_m2) /\ g_pub = g_priv)
        /\ \A k \in {"filename", "file_size", "transaction_id"} :
              Changed(g_m1, g_m2, k) => ~g_ok

\* A signature was verified against a dict with the same items inserted in
\* another order
C34_Witness ==
    /\ g_pc = "verified"
    /\ g_ok
    /\ g_m1 # g_m2
    /\ SameItems(g_m1, g_m2)

\* The positions of r_steps at which the hook was invoked
HookCalls == { i \in DOMAIN r_steps : r_steps[i] = "on_new_file" }

\* C35: the Receiver invokes the on_new_file hook only after the decrypted
\* file has been written, not more than once for a FILE_DATA message, which
\* is then answered with ACK, and never for a FILE_DATA message answered
\* with NACK.
C35_HookOnlyAfterWriteAndWithAck ==
    Get(r_msg, "type") = "FILE_DATA" =>
        /\ \A i \in HookCalls : \E j \in 1..(i - 1) : r_steps[j] = "write"
        /\ Cardinality(HookCalls) <= 1
        /\ HookCalls # {} => Get(r_reply, "type") = "ACK"
        /\ Get(r_reply, "type") = "NACK" => HookCalls = {}

\* C36: an inbound connection of a relay that has been idle for longer than
\* the idle timeout is closed and removed from the relay's tables by the
\* next periodic sweep, with connections_closed incremented once for it; a
\* connection active within the timeout is neither closed nor removed.
C36_SweepClosesIdleConnections ==
    [][ (connection_lock = "cleanup" /\ connection_lock' = "free")
        => /\ \A c \in cn_idle :
                 /\ cn_pc'[c] = "closed"
                 /\ c \notin client_handlers'
                 /\ c \notin DOMAIN connections'
           /\ sv_connections_closed' =
                 sv_connections_closed + Cardinality(cn_idle)
           /\ \A c \in Conns \ cn_idle :
                 /\ cn_pc'[c] = cn_pc[c]
                 /\ c \in client_handlers' <=> c \in client_handlers ]_vars

\* The entry was forwarded: one of its attempts got a response
Forwarded(id) == fw[id].attempts - fw[id].failed = 1

Dropped(id) == fw[id].drops = 1

RECURSIVE SumForwarded(_)
SumForwarded(n) ==
    IF n = 0 THEN 0
    ELSE (fw[n].attempts - fw[n].failed) + SumForwarded(n - 1)

\* The entries the worker has in hand: those in the queue and the one it
\* popped
InHand == Len(sv_message_queue) + (IF sv_item = NoItem THEN 0 ELSE 1)

\* Every entry is in the queue, held by the worker, forwarded or dropped,
\* and only one of these; the counters count the entries; no retry_count is
\* above the limit
C37_Accounted ==
    /\ \A id \in DOMAIN fw :
          /\ fw[id].attempts - fw[id].failed \in {0, 1}
          /\ fw[id].drops \in {0, 1}
          /\ ~(Forwarded(id) /\ Dropped(id))
          /\ (Forwarded(id) \/ Dropped(id)) <=>
                ~(Queued(id) \/ (sv_item # NoItem /\ sv_item.id = id))
    /\ sv_messages_forwarded = SumForwarded(Len(fw))
    /\ sv_messages_dropped = SumDrops(Len(fw))
    /\ sv_messages_forwarded + sv_messages_dropped + InHand = Len(fw)
    /\ \A i \in DOMAIN sv_message_queue :
          sv_message_queue[i].retry_count <= RetryLimit
    /\ sv_item # NoItem => sv_item.retry_count <= RetryLimit

\* C37: while the worker runs, every entry placed in the forwarding queue is
\* in the end either forwarded (messages_forwarded + 1) or dropped
\* (messages_dropped + 1), never both and never lost; retry_count never
\* exceeds 3; once no new entries arrive the queue becomes empty.
C37_EveryEntrySettled ==
    /\ []C37_Accounted
    /\ \A id \in 1..MaxQueued :
          (id \in DOMAIN fw)
             ~> (id \in DOMAIN fw /\ (Forwarded(id) \/ Dropped(id)))
    /\ []<>(sv_message_queue = <<>> /\ sv_item = NoItem)
    /\ <>[](Len(fw) = MaxQueued) => <>[](sv_message_queue = <<>>)

\* One entry was dropped after its retries, another was forwarded, and the
\* queue is empty
C37_Witness ==
    /\ Len(fw) >= 2
    /\ \E id \in DOMAIN fw : Dropped(id) /\ fw[id].attempts = RetryLimit + 1
    /\ \E id \in DOMAIN fw : Forwarded(id) /\ fw[id].failed >= 1
    /\ sv_message_queue = <<>>
    /\ sv_item = NoItem

\* The first replies of the peer to the forwards i..Len(ups), in order
RECURSIVE FirstReplies(_, _)
FirstReplies(ups, i) ==
    IF i > Len(ups) THEN <<>>
    ELSE ups[i].reply \o FirstReplies(ups, i + 1)

MessageFields ==
    {"type", "source", "destination", "data", "timestamp", "transaction_id"}

\* C38: the message a relay delivers upstream has the type, source,
\* destination, data, timestamp and transaction_id it was received with,
\* the upstream reply is returned unmodified to the inbound connection that
\* sent the request, and the replies written to one inbound connection are
\* in the order of that connection's requests.
C38_RelayIsTransparent ==
    \A c \in Conns :
        /\ \A i \in DOMAIN cn_up[c] :
              LET up == cn_up[c][i] IN
              /\ Len(up.forwarded) = 1
              /\ \A f \in MessageFields :
                    Get(up.forwarded[1], f) = Get(up.request, f)
              /\ up.request.transaction_id[1] = c
              /\ \A j \in 1..(i - 1) :
                    cn_up[c][j].request.transaction_id[2]
                        < up.request.transaction_id[2]
        /\ cn_out[c] = FirstReplies(cn_up[c], 1)

\* Both connections had a request answered, one of them two requests with
\* a failed forward before the second
C38_Witness ==
    /\ Len(cn_out["c1"]) = 2
    /\ Len(cn_up["c1"]) = 2
    /\ cn_out["c1"][1].transaction_id = <<"c1", 1>>
    /\ cn_out["c1"][2].transaction_id = <<"c1", 2>>
    /\ Len(cn_up["c2"]) = 2
    /\ cn_up["c2"][1].reply = <<>>
    /\ Len(cn_out["c2"]) = 1
    /\ cn_out["c2"][1].transaction_id = <<"c2", 2>>

\* The number of times the threads of the connections in S have entered
\* the message handler: the messages written minus those not yet received
RECURSIVE Entered(_)
Entered(S) ==
    IF S = {} THEN 0
    ELSE LET c == CHOOSE x \in S : TRUE
         IN (cn_nsent[c] - Len(cn_inbox[c])) + Entered(S \ {c})

\* C39: with several inbound connections handled concurrently, whenever no
\* handler thread is between its read and its write of
\* stats['messages_received'], the counter equals the number of times the
\* message handler has been entered: no increment is lost.
C39_NoLostIncrement ==
    (\A c \in Conns : cn_pc[c] # "loaded")
        => sv_messages_received = Entered(Conns)

\* The socket of connection c has been closed, by stop_server or by the
\* connection's own thread
SocketClosed(c) == c \in st_closed \/ cn_pc[c] = "closed"

\* C40: stop_server, run while client threads are finishing and removing
\* their own entries from client_handlers, completes without error, closes
\* every client socket and the listening socket, and leaves client_handlers
\* empty.
C40_StopServerCompletes ==
    /\ st_pc # "error"
    /\ st_pc = "stopped" =>
          /\ client_handlers = {}
          /\ ~listening
          /\ \A c \in Conns : cn_pc[c] # "unconnected" => SocketClosed(c)

====
